---- MODULE Spec2Model ----
(***************************************************************************)
(* Model of the news pipeline of InAnJay/newbot: the URL canonicalizer     *)
(* (scheduler.py normalize_url), the article and source tables             *)
(* (database.py), the ingestion sweep run by the scheduler thread and by   *)
(* the manual trigger (scheduler.py, telegram_bot.py check_sources), and   *)
(* the moderation handlers of telegram_bot.py.                             *)
(*                                                                         *)
(* Strings are sequences of atoms. An atom is an indivisible piece of text *)
(* ("http:", "/", "www.", "a", ...); the text of a URL is the              *)
(* concatenation of its atoms. The atoms are chosen so that every prefix   *)
(* test of the code ('http://', 'https://', 'www.') matches the text       *)
(* exactly when it matches whole atoms.                                    *)
(***************************************************************************)
EXTENDS Integers, Sequences, FiniteSets, TLC

VARIABLES
    news_sources,     \* rows of table news_sources (a set of records)
    next_source_id,   \* next id the news_sources table hands out
    news_articles,    \* rows of table news_articles (a set of records)
    next_article_id,  \* next id the news_articles table hands out
    now,              \* the clock behind CURRENT_TIMESTAMP (1 s resolution)
    is_running,       \* NewsScheduler.is_running
    sw,               \* per thread: the frame of check_sources_for_news
    ctl,              \* the control path (event loop): position + last page
    canon,            \* harness of the canonicalizer (SpecCanon only)
    race,             \* history: the open insert race and what its inserts returned
    keywords,         \* rows of table keywords (the set of the keyword column)
    seedings,         \* history: how often seed_initial_keywords filled the table
    jobs,             \* the jobs registered with the schedule module
    loops,            \* the live threads running _run_scheduler_loop (their numbers)
    thread,           \* self.thread: the number of the thread started last, or None
    call              \* the last call of a store or scheduler method: its
                      \* arguments, the state before it and what it returned

vars == <<news_sources, next_source_id, news_articles, next_article_id, now,
          is_running, sw, ctl, canon, race, keywords, seedings, jobs, loops, thread, call>>

kwVars == <<keywords, seedings>>
schedVars == <<jobs, loops, thread>>

---------------------------------------------------------------------------
(* Bounds *)
MaxSources == 1
MaxArticleId == 2
MaxTime == 1
MaxCands == 1
MaxPageSize == 2
MaxUrlLen == 3
MaxBaseLen == 2
MaxRegistrySources == 2
MaxWordLen == 1
MaxTextLen == 2
MaxKeywords == 2
MaxSeedings == 2

\* SpecRetention: the oldest creation time and the largest days_old
MaxAge == 3
MaxDays == 1

\* SpecScheduler: how often start_scheduler starts a thread
MaxStarts == 2

\* SpecPublish: how many posts to the channel the history counts per article
MaxPosts == 2

(* SQL NULL / Python None for integer columns and return values *)
NULL == 0 - 1
None == 0

---------------------------------------------------------------------------
(* Strings *)
Atoms == {"http:", "https:", "HTTP:", "www.", "WWW.", "/", "?", "#", "[", "a", "A"}

\* str.lower(), atom by atom
LowerAtom(c) ==
    CASE c = "HTTP:" -> "http:"
      [] c = "WWW."  -> "www."
      [] c = "A"     -> "a"
      [] OTHER       -> c

Lower(s) == [i \in 1..Len(s) |-> LowerAtom(s[i])]

\* str.startswith(p)
StartsWith(s, p) == Len(s) >= Len(p) /\ SubSeq(s, 1, Len(p)) = p

\* s[n:]
Drop(s, n) == SubSeq(s, n + 1, Len(s))

\* index of the first atom of s that is in D, or Len(s)+1
RECURSIVE FirstIn(_, _, _)
FirstIn(s, D, i) ==
    IF i > Len(s) THEN Len(s) + 1
    ELSE IF s[i] \in D THEN i
    ELSE FirstIn(s, D, i + 1)

\* str.rstrip('/')
RECURSIVE RStripSlash(_)
RStripSlash(s) ==
    IF Len(s) > 0 /\ s[Len(s)] = "/" THEN RStripSlash(SubSeq(s, 1, Len(s) - 1))
    ELSE s

\* urlparse('http://' + url).netloc : the text up to the first of / ? #
Netloc(url) == SubSeq(url, 1, FirstIn(url, {"/", "?", "#"}, 1) - 1)

\* urlparse('http://' + url).path : from the end of netloc up to the first
\* of ? # (query and fragment are split off)
UrlPath(url) ==
    LET rest == Drop(url, Len(Netloc(url)))
    IN  SubSeq(rest, 1, FirstIn(rest, {"?", "#"}, 1) - 1)

\* urlparse('http://' + url) raises ValueError ('Invalid IPv6 URL'): the
\* netloc holds a '[' and no ']'
ParseFails(url) == \E i \in 1..Len(Netloc(url)) : Netloc(url)[i] = "["

SchemeHttp == <<"http:", "/", "/">>
SchemeHttps == <<"https:", "/", "/">>

\* mutant: the canonicalizer keeps a trailing slash of the path
normalize_url_keepslash(url) ==
    IF url = <<>> THEN <<>>
    ELSE LET u1 == IF StartsWith(url, SchemeHttp) \/ StartsWith(url, SchemeHttps)
                   THEN Drop(url, 3) ELSE url
             u2 == IF StartsWith(u1, <<"www.">>) THEN Drop(u1, 1) ELSE u1
         IN  IF ParseFails(u2) THEN Lower(u2)
             ELSE Lower(Netloc(u2) \o UrlPath(u2))

\* NewsScheduler.normalize_url; the except branch (line 54-56) returns the
\* lower-cased text left after the two prefix strips
normalize_url(url) ==
    IF url = <<>> THEN <<>>
    ELSE LET u1 == IF StartsWith(url, SchemeHttp) \/ StartsWith(url, SchemeHttps)
                   THEN Drop(url, 3) ELSE url
             u2 == IF StartsWith(u1, <<"www.">>) THEN Drop(u1, 1) ELSE u1
         IN  IF ParseFails(u2) THEN Lower(u2)
             ELSE Lower(Netloc(u2) \o RStripSlash(UrlPath(u2)))

---------------------------------------------------------------------------
(* Inputs *)

\* all strings of at most n atoms
Urls(n) == UNION {[1..k -> Atoms] : k \in 0..n}

\* URLs the scrapers hand to the sweep as article['url']
RawUrls ==
    { <<"http:", "/", "/", "a">>,
      <<"https:", "/", "/", "www.", "a", "/">>,
      <<"WWW.", "a">>,
      <<"/">> }

\* results of NewsScraper.scrape_source: a list of candidates (their URLs)
CandidateLists == UNION {[1..k -> RawUrls] : k \in 0..MaxCands}

Threads == {"timer", "manual"}

---------------------------------------------------------------------------
(* Tables *)

\* a text column that holds NULL; Python's None
NULLTEXT == <<"NULL">>

\* a row of news_articles; the INSERT of add_news_article names no rewritten
\* column, so a new row has NULL there
Row(id, source_id, url, status, created_at, published_at) ==
    [id |-> id, source_id |-> source_id, original_url |-> url,
     status |-> status, created_at |-> created_at,
     published_at |-> published_at,
     rewritten_title |-> NULLTEXT, rewritten_content |-> NULLTEXT]

\* Database.get_source_by_id(id) is not None
SourceExists(id) == \E s \in news_sources : s.id = id

\* Database.get_article_by_id(id) is not None
ArticleExistsById(id) == \E a \in news_articles : a.id = id

\* the values of column source_type: the buttons of receive_name
SourceTypes == {"rss", "website", "telegram"}

\* a row of news_sources as the program inserts it; is_active gets its
\* default 1 (no statement of the program writes the column)
SourceRow(id, name, url, source_type, last_check) ==
    [id |-> id, name |-> name, url |-> url, source_type |-> source_type,
     is_active |-> 1, last_check |-> last_check]

\* the order of the names: ORDER BY name
NameRank(name) ==
    CASE name = "Demo" -> 1
      [] name = "News" -> 2
      [] OTHER         -> 3

\* Database.get_news_sources(active_only=True): every listing ORDER BY name
\* allows (rows with equal names come in an order SQL leaves open); the sweep
\* reads id and name of each row
get_news_sources ==
    LET active == {s \in news_sources : s.is_active = 1}
        n == Cardinality(active)
    IN  {[i \in 1..n |-> [id |-> f[i].id, name |-> f[i].name]] :
            f \in {g \in [1..n -> active] :
                      /\ \A i, j \in 1..n : i # j => g[i] # g[j]
                      /\ \A i, j \in 1..n :
                            i < j => NameRank(g[i].name) <= NameRank(g[j].name)}}

\* Database.add_news_source: the new id and the new table; on the UNIQUE url
\* column a duplicate raises IntegrityError -> ValueError (raised = TRUE)
add_news_source(name, url, source_type) ==
    IF \E s \in news_sources : s.url = url
    THEN [raised |-> TRUE, id |-> None, rows |-> news_sources]
    ELSE [raised |-> FALSE, id |-> next_source_id,
          rows |-> news_sources \cup
                   {SourceRow(next_source_id, name, url, source_type, NULL)}]

\* mutant of update_source_details: the url column is not UNIQUE
update_source_details_noindex(source_id, name, url) ==
    [raised |-> FALSE,
     rows |-> {IF s.id = source_id
               THEN [s EXCEPT !.name = IF name # "" THEN name ELSE @,
                              !.url = IF url # <<>> THEN url ELSE @]
               ELSE s : s \in news_sources}]

\* Database.update_source_details(source_id, name, url): an empty or absent
\* name ("") or url (<<>>) is not written; the UPDATE sets the others on the row
\* of that id; IntegrityError on the UNIQUE url column -> ValueError
update_source_details(source_id, name, url) ==
    IF name = "" /\ url = <<>>
    THEN [raised |-> FALSE, rows |-> news_sources]
    ELSE IF /\ url # <<>>
            /\ SourceExists(source_id)
            /\ \E s \in news_sources : s.id # source_id /\ s.url = url
         THEN [raised |-> TRUE, rows |-> news_sources]
         ELSE [raised |-> FALSE,
               rows |-> {IF s.id = source_id
                         THEN [s EXCEPT !.name = IF name # "" THEN name ELSE @,
                                        !.url = IF url # <<>> THEN url ELSE @]
                         ELSE s : s \in news_sources}]

\* Database.article_exists
\* mutant: the lookup compares a column that never holds the URL
article_exists_never(original_url) == FALSE

\* Database.article_exists
article_exists(original_url) ==
    \E a \in news_articles : a.original_url = original_url

\* mutant: an exception of the loop body ends the whole sweep
sweep_except_abort(t) ==
    /\ sw[t].pc \in {"article", "insert", "last_check"}
    /\ sw[t].pc = "article" => sw[t].articles # <<>>
    /\ sw' = [sw EXCEPT ![t].pc = "return", ![t].sources = <<>>,
                        ![t].articles = <<>>,
                        ![t].raised = @ \cup {Head(sw[t].sources).id}]
    /\ UNCHANGED <<kwVars, schedVars, call, news_sources, next_source_id, news_articles, next_article_id,
                   now, is_running, ctl, canon, race>>

\* mutant: add_news_article on a table without the UNIQUE index
add_news_article_noindex(source_id, original_url) ==
    [id |-> next_article_id,
     rows |-> news_articles \cup
              {Row(next_article_id, source_id, original_url, "pending", now, NULL)}]

\* Database.add_news_article: the new id and the new table; the UNIQUE index
\* idx_original_url turns a duplicate into IntegrityError -> None
add_news_article(source_id, original_url) ==
    IF article_exists(original_url)
    THEN [id |-> None, rows |-> news_articles]
    ELSE [id |-> next_article_id,
          rows |-> news_articles \cup
                   {Row(next_article_id, source_id, original_url, "pending", now, NULL)}]

\* Database.update_article_status
update_article_status(article_id, status) ==
    {IF a.id = article_id
     THEN IF status = "published"
          THEN [a EXCEPT !.status = status, !.published_at = now]
          ELSE [a EXCEPT !.status = status]
     ELSE a : a \in news_articles}

\* Database.update_source_last_check
update_source_last_check(source_id) ==
    {IF s.id = source_id THEN [s EXCEPT !.last_check = now] ELSE s
     : s \in news_sources}

\* all orders of the rows S that ORDER BY created_at DESC allows: rows with
\* equal created_at come in an order SQL leaves open
Orderings(S) ==
    {f \in [1..Cardinality(S) -> S] :
        /\ \A i, j \in 1..Cardinality(S) : i # j => f[i] # f[j]
        /\ \A i, j \in 1..Cardinality(S) : i < j => f[i].created_at >= f[j].created_at}

Min(a, b) == IF a < b THEN a ELSE b

\* rows of the page query: status = 'pending', inner JOIN news_sources
PendingJoined ==
    {a \in news_articles : a.status = "pending" /\ SourceExists(a.source_id)}

\* mutant: the page query without the status filter
PageRows_nofilter == {a \in news_articles : SourceExists(a.source_id)}

\* rows the page query selects before ORDER BY / LIMIT / OFFSET
PageRows == PendingJoined

\* Database.get_pending_articles_paginated under the row order ord
get_pending_articles_paginated(page, page_size, ord) ==
    LET total_count == Cardinality({a \in news_articles : a.status = "pending"})
        offset == (page - 1) * page_size
    IN  [items |-> SubSeq(ord, offset + 1, Min(offset + page_size, Len(ord))),
         total |-> total_count]

---------------------------------------------------------------------------
(* Keywords *)

\* the letters of keywords and texts
KwLetters == {"a", "A", "b"}

\* code point order of the letters
LetterRank(c) ==
    CASE c = "A" -> 1
      [] c = "a" -> 2
      [] OTHER   -> 3

\* x < y as SQLite's BINARY collation (ORDER BY keyword) compares text
RECURSIVE StrLess(_, _)
StrLess(x, y) ==
    IF y = <<>> THEN FALSE
    ELSE IF x = <<>> THEN TRUE
    ELSE IF Head(x) = Head(y) THEN StrLess(Tail(x), Tail(y))
    ELSE LetterRank(Head(x)) < LetterRank(Head(y))

\* the strings of S in ascending order
RECURSIVE SortStrings(_)
SortStrings(S) ==
    IF S = {} THEN <<>>
    ELSE LET m == CHOOSE x \in S : \A y \in S : x = y \/ StrLess(x, y)
         IN  <<m>> \o SortStrings(S \ {m})

\* config.INITIAL_KEYWORDS: a list of distinct lower-case words
INITIAL_KEYWORDS == << <<"a">>, <<"a", "b">> >>

\* Database.get_keywords on the table rows
get_keywords(rows) == SortStrings(rows)

\* mutant: add_keyword stores the word as typed
add_keyword_aswritten(rows, keyword) ==
    IF keyword \in rows
    THEN [ret |-> FALSE, rows |-> rows]
    ELSE [ret |-> TRUE, rows |-> rows \cup {keyword}]

\* Database.add_keyword: INSERT of keyword.lower(); the UNIQUE column turns a
\* duplicate into IntegrityError -> False
add_keyword(rows, keyword) ==
    IF Lower(keyword) \in rows
    THEN [ret |-> FALSE, rows |-> rows]
    ELSE [ret |-> TRUE, rows |-> rows \cup {Lower(keyword)}]

\* Database.delete_keyword: DELETE of keyword.lower(), rowcount > 0
delete_keyword(rows, keyword) ==
    [ret |-> Lower(keyword) \in rows, rows |-> rows \ {Lower(keyword)}]

\* seed_initial_keywords, line 107-108: add_keyword for each word of the list
RECURSIVE AddAll(_, _)
AddAll(rows, list) ==
    IF list = <<>> THEN rows
    ELSE AddAll(add_keyword(rows, Head(list)).rows, Tail(list))

\* Database.seed_initial_keywords: the new table and whether it was filled
seed_initial_keywords(rows) ==
    IF get_keywords(rows) = <<>> /\ INITIAL_KEYWORDS # <<>>
    THEN [seeded |-> TRUE, rows |-> AddAll(rows, INITIAL_KEYWORDS)]
    ELSE [seeded |-> FALSE, rows |-> rows]

\* needle in haystack (Python's in on strings)
IsSubstring(needle, haystack) ==
    \E i \in 0..(Len(haystack) - Len(needle)) :
        SubSeq(haystack, i + 1, i + Len(needle)) = needle

\* mutant: the text is searched as written, not lower-cased
is_marketplace_related_casesens(text) ==
    LET kws == get_keywords(keywords)
    IN  IF kws = <<>> THEN TRUE
        ELSE \E i \in 1..Len(kws) : IsSubstring(kws[i], text)

\* NewsScraper.is_marketplace_related
is_marketplace_related(text) ==
    LET text_lower == Lower(text)
        kws == get_keywords(keywords)
    IN  IF kws = <<>> THEN TRUE
        ELSE \E i \in 1..Len(kws) : IsSubstring(kws[i], text_lower)

\* Database._cleanup_and_migrate, step 2, on a store that has the UNIQUE index
\* idx_original_url: the rows are rewritten one by one to their normalized
\* URL; an UPDATE that runs into another row's URL raises IntegrityError
RECURSIVE MigrateRows(_, _)
MigrateRows(rows, todo) ==
    IF todo = {} THEN [raised |-> FALSE, rows |-> rows]
    ELSE LET id == CHOOSE x \in todo : \A y \in todo : x <= y
             a == CHOOSE r \in rows : r.id = id
             u == normalize_url(a.original_url)
         IN  IF \E b \in rows : b.id # id /\ b.original_url = u
             THEN [raised |-> TRUE, rows |-> rows]
             ELSE MigrateRows((rows \ {a}) \cup {[a EXCEPT !.original_url = u]},
                              todo \ {id})

---------------------------------------------------------------------------
(* Initial state: a fresh database, a constructed NewsScheduler and NewsBot *)

\* the frame of check_sources_for_news: sources is the rest of the for loop,
\* by_source the dict articles_by_source (keyed by source name), total the
\* counter total_new_articles. History of the sweep: listed (the sources as
\* listed), raised (the sources whose processing raised), checked (the sources
\* whose last_check the sweep wrote), added (the ids of the sources of the
\* articles the sweep inserted, in order)
\* owner is the loop thread that runs the sweep (None for a manual sweep),
\* failed tells that the outer except branch (line 109-111) was taken.
\* due holds the jobs that schedule.run_pending() of the owner found due
\* together with the sweep and runs after it.
IdleFrame ==
    [pc |-> "idle", sources |-> <<>>, articles |-> <<>>,
     article_id |-> None, total |-> 0, by_source |-> <<>>, owner |-> None,
     listed |-> <<>>, raised |-> {}, checked |-> {}, added |-> <<>>,
     failed |-> FALSE, due |-> <<>>]

IdleCtl == [pc |-> "idle", page |-> 0, page_size |-> 0, items |-> <<>>, total |-> 0]

CanonOff ==
    [step |-> "off", base |-> <<>>, url |-> <<>>, other |-> <<>>, once |-> <<>>,
     twice |-> <<>>, other_once |-> <<>>]

NoRace == [url |-> <<>>, rets |-> <<>>]

NoCall == [op |-> "none"]

\* all but the keyword table
InitState ==
    /\ news_sources = {}
    /\ next_source_id = 1
    /\ news_articles = {}
    /\ next_article_id = 1
    /\ now = 0
    /\ is_running = FALSE
    /\ sw = [t \in Threads |-> IdleFrame]
    /\ ctl = IdleCtl
    /\ race = NoRace
    /\ jobs = <<>>
    /\ loops = {}
    /\ thread = None
    /\ call = NoCall

\* main.py line 76: Database() on a new store has seeded the keywords
InitProgram ==
    /\ InitState
    /\ keywords = seed_initial_keywords({}).rows
    /\ seedings = 1

Init == InitProgram /\ canon = CanonOff

InFlight(t) == sw[t].pc # "idle"

\* the event loop handles one update at a time (Application.builder() leaves
\* concurrent_updates off): a handler starts only when the previous one,
\* check_sources awaiting its sweep included, has returned
ControlFree == ctl.pc = "idle" /\ ~InFlight("manual")

---------------------------------------------------------------------------
(* The clock *)

Tick ==
    /\ now < MaxTime
    /\ now' = now + 1
    /\ UNCHANGED <<kwVars, schedVars, call, news_sources, next_source_id, news_articles, next_article_id,
                   is_running, sw, ctl, canon, race>>

---------------------------------------------------------------------------
(* NewsScheduler *)

\* the scheduler state a call of start_scheduler or stop_scheduler finds
SchedulerState == [is_running |-> is_running, jobs |-> jobs, loops |-> loops,
                   thread |-> thread]

\* the caller of start_scheduler and stop_scheduler is not inside a call
CallerFree == ~(call.op = "stop_scheduler" /\ call.pc = "join")

\* the jobs start_scheduler registers with the schedule module, line 201-202
ScheduledJobs == <<"check", "cleanup">>

\* mutant of start_scheduler: no test of is_running
start_scheduler_noguard ==
    /\ CallerFree
    /\ call' = [op |-> "start_scheduler", pc |-> "done", pre |-> SchedulerState,
                timed_out |-> FALSE]
    /\ jobs' = jobs \o ScheduledJobs
    /\ is_running' = TRUE
    /\ thread' = thread + 1
    /\ loops' = loops \cup {thread + 1}
    /\ UNCHANGED <<kwVars, news_sources, next_source_id, news_articles, next_article_id,
                   now, sw, ctl, canon, race>>

\* start_scheduler: on a running scheduler a warning and nothing else;
\* otherwise the two jobs are registered, is_running is set and a new daemon
\* thread runs _run_scheduler_loop (threads are numbered in start order)
start_scheduler ==
    /\ CallerFree
    /\ call' = [op |-> "start_scheduler", pc |-> "done", pre |-> SchedulerState,
                timed_out |-> FALSE]
    /\ IF is_running
       THEN UNCHANGED <<is_running, jobs, loops, thread>>
       ELSE /\ jobs' = jobs \o ScheduledJobs
            /\ is_running' = TRUE
            /\ thread' = thread + 1
            /\ loops' = loops \cup {thread + 1}
    /\ UNCHANGED <<kwVars, news_sources, next_source_id, news_articles, next_article_id,
                   now, sw, ctl, canon, race>>

\* stop_scheduler, line 213-223: on a stopped scheduler a warning and nothing
\* else; otherwise is_running is cleared, schedule.clear() drops every job
\* and the caller joins self.thread if it is alive
stop_scheduler ==
    /\ CallerFree
    /\ IF ~is_running
       THEN /\ call' = [op |-> "stop_scheduler", pc |-> "done",
                        pre |-> SchedulerState, timed_out |-> FALSE]
            /\ UNCHANGED <<is_running, jobs>>
       ELSE /\ is_running' = FALSE
            /\ jobs' = <<>>
            /\ call' = [op |-> "stop_scheduler",
                        pc |-> IF thread \in loops THEN "join" ELSE "done",
                        pre |-> SchedulerState, timed_out |-> FALSE]
    /\ UNCHANGED <<kwVars, loops, thread, news_sources, next_source_id, news_articles,
                   next_article_id, now, sw, ctl, canon, race>>

\* stop_scheduler, line 223: self.thread.join(timeout=5) returns because the
\* thread has ended
stop_join_return ==
    /\ call.op = "stop_scheduler"
    /\ call.pc = "join"
    /\ thread \notin loops
    /\ call' = [call EXCEPT !.pc = "done"]
    /\ UNCHANGED <<kwVars, schedVars, news_sources, next_source_id, news_articles,
                   next_article_id, now, is_running, sw, ctl, canon, race>>

\* stop_scheduler, line 223: self.thread.join(timeout=5) returns because the
\* five seconds are over; the thread is asleep (time.sleep(60)) or in a job
stop_join_timeout ==
    /\ call.op = "stop_scheduler"
    /\ call.pc = "join"
    /\ thread \in loops
    /\ call' = [call EXCEPT !.pc = "done", !.timed_out = TRUE]
    /\ UNCHANGED <<kwVars, schedVars, news_sources, next_source_id, news_articles,
                   next_article_id, now, is_running, sw, ctl, canon, race>>

\* mutant of loop_exit: the thread ends as soon as is_running is cleared and
\* abandons the sweep it is in
loop_exit_cut(th) ==
    /\ th \in loops
    /\ ~is_running
    /\ loops' = loops \ {th}
    /\ sw' = IF sw["timer"].owner = th THEN [sw EXCEPT !["timer"] = IdleFrame] ELSE sw
    /\ UNCHANGED <<kwVars, jobs, thread, call, news_sources, next_source_id, news_articles,
                   next_article_id, now, is_running, ctl, canon, race>>

\* _run_scheduler_loop, line 229: the thread th tests is_running between two
\* rounds, that is when it is not inside run_pending, and ends when it is clear
loop_exit(th) ==
    /\ th \in loops
    /\ ~is_running
    /\ ~(InFlight("timer") /\ sw["timer"].owner = th)
    /\ loops' = loops \ {th}
    /\ UNCHANGED <<kwVars, jobs, thread, call, news_sources, next_source_id, news_articles,
                   next_article_id, now, is_running, sw, ctl, canon, race>>

\* mutant of ListingFailed: no outer except branch, the exception leaves
\* check_sources_for_news
ListingFailed_propagates(th) ==
    [IdleFrame EXCEPT !.pc = "raised", !.owner = th, !.failed = TRUE]

\* check_sources_for_news, line 109-111: get_news_sources has raised (it
\* catches nothing); the outer except branch logs and returns
\* {'total': 0, 'by_source': {}}
ListingFailed(th) ==
    [IdleFrame EXCEPT !.pc = "return", !.owner = th, !.failed = TRUE]

\* check_sources_for_news, line 66-68: list the sources, zero the counters;
\* or the listing raises
BeginSweep(t, th) ==
    \/ \E sources \in get_news_sources :
          sw' = [sw EXCEPT ![t] =
                    [IdleFrame EXCEPT
                        !.pc = "source", !.owner = th, !.sources = sources, !.listed = sources,
                        !.by_source = [n \in {sources[i].name : i \in 1..Len(sources)}
                                          |-> 0]]]
    \/ sw' = [sw EXCEPT ![t] = ListingFailed(th)]

\* _run_scheduler_loop, line 229-231: the thread th has found is_running set
\* and schedule.run_pending() runs the sweep job, which is due and still
\* registered (the daily job of 03:00 is delete_old_articles, SpecRetention).
\* The model keeps one frame for the sweeps of the timer.
run_pending(th) ==
    /\ th \in loops
    /\ is_running
    /\ \E i \in 1..Len(jobs) : jobs[i] = "check"
    /\ ~InFlight("timer")
    /\ BeginSweep("timer", th)
    /\ UNCHANGED <<kwVars, schedVars, call, news_sources, next_source_id, news_articles, next_article_id,
                   now, is_running, ctl, canon, race>>

\* _run_scheduler_loop, line 229-231, at a round in which the sweep job and
\* the daily job are due together: schedule.run_pending() collects the due
\* jobs (sorted(job for job in self.jobs if job.should_run)) and then runs
\* them one after the other, the sweep first
run_pending_both(th) ==
    /\ th \in loops
    /\ is_running
    /\ \E i \in 1..Len(jobs) : jobs[i] = "check"
    /\ \E i \in 1..Len(jobs) : jobs[i] = "cleanup"
    /\ ~InFlight("timer")
    /\ \/ \E sources \in get_news_sources :
             sw' = [sw EXCEPT !["timer"] =
                       [IdleFrame EXCEPT
                           !.pc = "source", !.owner = th, !.sources = sources,
                           !.listed = sources, !.due = <<"cleanup">>,
                           !.by_source = [n \in {sources[i].name : i \in 1..Len(sources)}
                                             |-> 0]]]
       \/ sw' = [sw EXCEPT !["timer"] = [ListingFailed(th) EXCEPT !.due = <<"cleanup">>]]
    /\ UNCHANGED <<kwVars, schedVars, call, news_sources, next_source_id, news_articles, next_article_id,
                   now, is_running, ctl, canon, race>>

\* NewsBot.check_sources -> run_in_executor(force_check_sources): the sweep
\* starts on a worker thread, whatever the scheduler thread is doing
force_check_sources ==
    /\ ControlFree
    /\ BeginSweep("manual", None)
    /\ UNCHANGED <<kwVars, schedVars, call, news_sources, next_source_id, news_articles, next_article_id,
                   now, is_running, ctl, canon, race>>

\* line 70-75: next source of the loop, scrape_source; line 102-107: return
sweep_source(t) ==
    /\ sw[t].pc = "source"
    /\ IF sw[t].sources = <<>>
       THEN sw' = [sw EXCEPT ![t].pc = "return"]
       ELSE \E arts \in CandidateLists :
               sw' = [sw EXCEPT ![t].pc = "article", ![t].articles = arts]
    /\ UNCHANGED <<kwVars, schedVars, call, news_sources, next_source_id, news_articles, next_article_id,
                   now, is_running, ctl, canon, race>>

\* the other thread
Rival(t) == IF t = "timer" THEN "manual" ELSE "timer"

\* mutant of sweep_article: last_check is written only for a source that
\* brought a new article
sweep_article_newonly(t) ==
    /\ sw[t].pc = "article"
    /\ IF sw[t].articles = <<>>
       THEN /\ sw' = IF \E k \in 1..Len(sw[t].added) :
                            sw[t].added[k] = Head(sw[t].sources).id
                     THEN [sw EXCEPT ![t].pc = "last_check"]
                     ELSE [sw EXCEPT ![t].pc = "source",
                                     ![t].sources = Tail(sw[t].sources)]
            /\ UNCHANGED race
       ELSE LET n == normalize_url(Head(sw[t].articles))
            IN  IF n = <<>> \/ article_exists(n)
                THEN /\ sw' = [sw EXCEPT ![t].articles = Tail(sw[t].articles)]
                     /\ UNCHANGED race
                ELSE /\ sw' = [sw EXCEPT ![t].pc = "insert"]
                     /\ race' = IF /\ sw[Rival(t)].pc = "insert"
                                   /\ normalize_url(Head(sw[Rival(t)].articles)) = n
                                THEN [url |-> n, rets |-> <<>>]
                                ELSE race
    /\ UNCHANGED <<kwVars, schedVars, call, news_sources, next_source_id, news_articles, next_article_id,
                   now, is_running, ctl, canon>>

\* line 77-83: next candidate, normalize_url, article_exists pre-check.
\* History: a race opens when both threads have passed the pre-check for the
\* same URL and neither has inserted yet.
sweep_article(t) ==
    /\ sw[t].pc = "article"
    /\ IF sw[t].articles = <<>>
       THEN /\ sw' = [sw EXCEPT ![t].pc = "last_check"]
            /\ UNCHANGED race
       ELSE LET n == normalize_url(Head(sw[t].articles))
            IN  IF n = <<>> \/ article_exists(n)
                THEN /\ sw' = [sw EXCEPT ![t].articles = Tail(sw[t].articles)]
                     /\ UNCHANGED race
                ELSE /\ sw' = [sw EXCEPT ![t].pc = "insert"]
                     /\ race' = IF /\ sw[Rival(t)].pc = "insert"
                                   /\ normalize_url(Head(sw[Rival(t)].articles)) = n
                                THEN [url |-> n, rets |-> <<>>]
                                ELSE race
    /\ UNCHANGED <<kwVars, schedVars, call, news_sources, next_source_id, news_articles, next_article_id,
                   now, is_running, ctl, canon>>

\* line 85-90: add_news_article. History: added records the source of every
\* row the sweep has inserted.
sweep_insert(t) ==
    /\ sw[t].pc = "insert"
    /\ LET u == normalize_url(Head(sw[t].articles))
           r == add_news_article(Head(sw[t].sources).id, u)
       IN  /\ r.id # None => next_article_id <= MaxArticleId
           /\ news_articles' = r.rows
           /\ next_article_id' = IF r.id # None THEN next_article_id + 1
                                 ELSE next_article_id
           /\ sw' = [sw EXCEPT ![t].pc = "count", ![t].article_id = r.id,
                               ![t].added = IF r.id # None
                                            THEN Append(@, Head(sw[t].sources).id)
                                            ELSE @]
           /\ race' = IF race.url = u /\ Len(race.rets) < 2
                      THEN [race EXCEPT !.rets = Append(race.rets, r.id)]
                      ELSE race
    /\ UNCHANGED <<kwVars, schedVars, call, news_sources, next_source_id, now, is_running, ctl, canon>>

\* mutant of sweep_count: every insert is counted, whatever it returned
sweep_count_always(t) ==
    /\ sw[t].pc = "count"
    /\ LET source == Head(sw[t].sources)
       IN  sw' = [sw EXCEPT ![t] =
                     [sw[t] EXCEPT !.pc = "article", !.articles = Tail(sw[t].articles),
                                   !.article_id = None,
                                   !.by_source[source.name] = @ + 1,
                                   !.total = @ + 1]]
    /\ race' = IF Len(race.rets) = 2 THEN NoRace ELSE race
    /\ UNCHANGED <<kwVars, schedVars, call, news_sources, next_source_id, news_articles, next_article_id,
                   now, is_running, ctl, canon>>

\* line 92-95: count the insert if it returned an id
sweep_count(t) ==
    /\ sw[t].pc = "count"
    /\ LET source == Head(sw[t].sources)
           f == [sw[t] EXCEPT !.pc = "article", !.articles = Tail(sw[t].articles),
                              !.article_id = None]
       IN  sw' = [sw EXCEPT ![t] =
                     IF sw[t].article_id # None
                     THEN [f EXCEPT !.by_source[source.name] = @ + 1,
                                    !.total = @ + 1]
                     ELSE f]
    /\ race' = IF Len(race.rets) = 2 THEN NoRace ELSE race
    /\ UNCHANGED <<kwVars, schedVars, call, news_sources, next_source_id, news_articles, next_article_id,
                   now, is_running, ctl, canon>>

\* line 97: update_source_last_check, then the next source
sweep_last_check(t) ==
    /\ sw[t].pc = "last_check"
    /\ news_sources' = update_source_last_check(Head(sw[t].sources).id)
    /\ sw' = [sw EXCEPT ![t].pc = "source", ![t].sources = Tail(sw[t].sources),
                        ![t].checked = @ \cup {Head(sw[t].sources).id}]
    /\ UNCHANGED <<kwVars, schedVars, call, next_source_id, news_articles, next_article_id, now,
                   is_running, ctl, canon, race>>

\* line 99-100: a statement of the loop body raises (sqlite3.OperationalError
\* out of article_exists, add_news_article or update_source_last_check, which
\* catch IntegrityError only); the except branch logs and the loop goes on
\* with the next source. A failed INSERT or UPDATE leaves no row behind.
sweep_except(t) ==
    /\ sw[t].pc \in {"article", "insert", "last_check"}
    /\ sw[t].pc = "article" => sw[t].articles # <<>>
    /\ sw' = [sw EXCEPT ![t].pc = "source", ![t].sources = Tail(sw[t].sources),
                        ![t].articles = <<>>,
                        ![t].raised = @ \cup {Head(sw[t].sources).id}]
    /\ race' = IF /\ sw[t].pc = "insert"
                  /\ race.url = normalize_url(Head(sw[t].articles))
               THEN NoRace ELSE race
    /\ UNCHANGED <<kwVars, schedVars, call, news_sources, next_source_id, news_articles, next_article_id,
                   now, is_running, ctl, canon>>

\* line 104-107: the result is handed to the caller; run_pending goes on
\* with the next job of its list, if it has one
sweep_return(t) ==
    /\ sw[t].pc = "return"
    /\ sw' = IF sw[t].due = <<>>
             THEN [sw EXCEPT ![t] = IdleFrame]
             ELSE [sw EXCEPT ![t] = [IdleFrame EXCEPT !.pc = Head(sw[t].due),
                                                      !.owner = sw[t].owner,
                                                      !.due = Tail(sw[t].due)]]
    /\ UNCHANGED <<kwVars, schedVars, call, news_sources, next_source_id, news_articles, next_article_id,
                   now, is_running, ctl, canon, race>>

---------------------------------------------------------------------------
(* NewsBot: the handlers of the control path *)

\* the source of the scenario: http://www.example.com/news/
DemoUrl == <<"http:", "/", "/", "www.", "a", "/", "a", "/">>

ArticleIds == 1..MaxArticleId
SourceIds == 1..MaxSources
Pages == 1..(MaxArticleId + 1)
PageSizes == 1..MaxPageSize

\* receive_url, line 778: url.startswith('http')
LooksLikeLink(url) == Len(url) > 0 /\ url[1] \in {"http:", "https:"}

\* receive_url .. receive_type: the URL is taken if it starts with 'http',
\* normalized and handed to Database.add_news_source; a ValueError is shown
\* to the user
receive_type(name, url, source_type) ==
    /\ ControlFree
    /\ LooksLikeLink(url)
    /\ LET r == add_news_source(name, normalize_url(url), source_type)
       IN  /\ news_sources' = r.rows
           /\ next_source_id' = IF r.raised THEN next_source_id
                                 ELSE next_source_id + 1
    /\ UNCHANGED <<kwVars, schedVars, call, news_articles, next_article_id, now, is_running, sw, ctl, canon, race>>

\* Database.update_source_details(source_id, url=url): the new table, or
\* IntegrityError -> ValueError on the UNIQUE url column
update_source_url(source_id, url) == update_source_details(source_id, "", url)

\* receive_new_source_value, field 'name'
edit_source_name(source_id, name) ==
    /\ ControlFree
    /\ SourceExists(source_id)
    /\ news_sources' = update_source_details(source_id, name, <<>>).rows
    /\ UNCHANGED <<kwVars, schedVars, call, next_source_id, news_articles, next_article_id, now,
                   is_running, sw, ctl, canon, race>>

\* receive_new_source_value, field 'url'
edit_source_url(source_id, url) ==
    /\ ControlFree
    /\ SourceExists(source_id)
    /\ LooksLikeLink(url)
    /\ news_sources' = update_source_url(source_id, normalize_url(url)).rows
    /\ UNCHANGED <<kwVars, schedVars, call, next_source_id, news_articles, next_article_id, now,
                   is_running, sw, ctl, canon, race>>

\* delete_source -> Database.delete_news_source: DELETE FROM news_sources on
\* a connection that never issues PRAGMA foreign_keys = ON, so SQLite
\* enforces no foreign key and no ON DELETE CASCADE runs
delete_source(source_id) ==
    /\ ControlFree
    /\ SourceExists(source_id)
    /\ news_sources' = {s \in news_sources : s.id # source_id}
    /\ UNCHANGED <<kwVars, schedVars, call, next_source_id, news_articles, next_article_id, now,
                   is_running, sw, ctl, canon, race>>

\* publish_article: the post to the channel (sent) comes first, then
\* update_article_status(id, 'published'); no test of the current status
publish_article(article_id, sent) ==
    /\ ControlFree
    /\ news_articles' = IF ArticleExistsById(article_id) /\ sent
                        THEN update_article_status(article_id, "published")
                        ELSE news_articles
    /\ UNCHANGED <<kwVars, schedVars, call, news_sources, next_source_id, next_article_id, now,
                   is_running, sw, ctl, canon, race>>

\* reject_article: update_article_status(id, 'rejected'), no test of the
\* current status
reject_article(article_id) ==
    /\ ControlFree
    /\ news_articles' = update_article_status(article_id, "rejected")
    /\ UNCHANGED <<kwVars, schedVars, call, news_sources, next_source_id, next_article_id, now,
                   is_running, sw, ctl, canon, race>>

\* delete_article_callback -> Database.delete_article
delete_article_callback(article_id) ==
    /\ ControlFree
    /\ ArticleExistsById(article_id)
    /\ news_articles' = {a \in news_articles : a.id # article_id}
    /\ race' = NoRace
    /\ UNCHANGED <<kwVars, schedVars, call, news_sources, next_source_id, next_article_id, now,
                   is_running, sw, ctl, canon>>

\* clear_database -> Database.clear_all_articles
clear_database ==
    /\ ControlFree
    /\ news_articles # {}
    /\ news_articles' = {}
    /\ race' = NoRace
    /\ UNCHANGED <<kwVars, schedVars, call, news_sources, next_source_id, next_article_id, now,
                   is_running, sw, ctl, canon>>

\* show_pending_news, line 245: one page query. The handler passes
\* page_size = 15; the query is exercised with every page size of PageSizes.
show_pending_news(page, page_size) ==
    /\ ControlFree
    /\ \E ord \in Orderings(PageRows) :
          LET r == get_pending_articles_paginated(page, page_size, ord)
          IN  ctl' = [pc |-> "render", page |-> page, page_size |-> page_size,
                      items |-> [i \in 1..Len(r.items) |-> r.items[i].id],
                      total |-> r.total]
    /\ UNCHANGED <<kwVars, schedVars, call, news_sources, next_source_id, news_articles, next_article_id,
                   now, is_running, sw, canon, race>>

\* show_pending_news, line 285-299: the page is sent, the handler returns
render_page ==
    /\ ctl.pc = "render"
    /\ ctl' = IdleCtl
    /\ UNCHANGED <<kwVars, schedVars, call, news_sources, next_source_id, news_articles, next_article_id,
                   now, is_running, sw, canon, race>>

---------------------------------------------------------------------------
(* Specification of the program *)

Next ==
    \/ Tick
    \/ ~is_running /\ start_scheduler
    \/ \E th \in loops : run_pending(th)
    \/ force_check_sources
    \/ \E t \in Threads : sweep_source(t)
    \/ \E t \in Threads : sweep_article(t)
    \/ \E t \in Threads : sweep_insert(t)
    \/ \E t \in Threads : sweep_count(t)
    \/ \E t \in Threads : sweep_last_check(t)
    \/ \E t \in Threads : sweep_except(t)
    \/ \E t \in Threads : sweep_return(t)
    \/ next_source_id <= MaxSources /\ receive_type("Demo", DemoUrl, "website")
    \/ \E id \in SourceIds : delete_source(id)
    \/ \E id \in ArticleIds, sent \in BOOLEAN : publish_article(id, sent)
    \/ \E id \in ArticleIds : reject_article(id)
    \/ \E id \in ArticleIds : delete_article_callback(id)
    \/ clear_database
    \/ \E page \in Pages, page_size \in PageSizes : show_pending_news(page, page_size)
    \/ render_page

Spec == Init /\ [][Next]_vars

---------------------------------------------------------------------------
(* Specification of the source registry: the add, edit and delete dialogues  *)
(* over sources with names and URLs, and the sweep of the manual trigger     *)
(* over them, in which any statement of the loop body may raise              *)

SourceNames == {"Demo", "News"}

\* URLs typed into the add and edit dialogues: the two spellings of the
\* scenario, an upper-case 'WWW.' spelling and another address
SourceUrls ==
    { DemoUrl,
      <<"https:", "/", "/", "a", "/", "a">>,
      <<"http:", "/", "/", "WWW.", "a", "/", "a">>,
      <<"https:", "/", "/", "a">> }

RegistryIds == 1..MaxRegistrySources

NextRegistry ==
    \/ /\ next_source_id <= MaxRegistrySources
       /\ \E name \in SourceNames, url \in SourceUrls : receive_type(name, url, "website")
    \/ \E id \in RegistryIds, name \in SourceNames : edit_source_name(id, name)
    \/ \E id \in RegistryIds, url \in SourceUrls : edit_source_url(id, url)
    \/ \E id \in RegistryIds : delete_source(id)
    \/ force_check_sources
    \/ sweep_source("manual")
    \/ sweep_article("manual")
    \/ sweep_insert("manual")
    \/ sweep_count("manual")
    \/ sweep_last_check("manual")
    \/ sweep_except("manual")
    \/ sweep_return("manual")

SpecRegistry == Init /\ [][NextRegistry]_vars

---------------------------------------------------------------------------
(* Specification of the keyword store: Database is constructed on a store   *)
(* that does not exist yet and again at every restart of the program; in    *)
(* between the keyword methods are called with words of any letter case     *)

Words == UNION {[1..k -> KwLetters] : k \in 1..MaxWordLen}
Texts == UNION {[1..k -> KwLetters] : k \in 0..MaxTextLen}

InitKeywords ==
    /\ InitState
    /\ canon = CanonOff
    /\ keywords = {}
    /\ seedings = 0

\* Database.__init__ -> init_database: the keywords table is created if it
\* is missing, the articles are migrated, the keywords are seeded; an
\* exception of the migration ends the construction
init_database ==
    /\ ControlFree
    /\ ~InFlight("timer")
    /\ seedings < MaxSeedings
    /\ LET m == MigrateRows(news_articles, {a.id : a \in news_articles})
           s == seed_initial_keywords(keywords)
       IN  IF m.raised
           THEN /\ call' = [op |-> "init_database", arg |-> <<>>,
                            pre |-> keywords, ret |-> "raised"]
                /\ UNCHANGED <<news_articles, kwVars>>
           ELSE /\ news_articles' = m.rows
                /\ keywords' = s.rows
                /\ seedings' = IF s.seeded THEN seedings + 1 ELSE seedings
                /\ call' = [op |-> "init_database", arg |-> <<>>,
                            pre |-> keywords, ret |-> s.seeded]
    /\ UNCHANGED <<schedVars, news_sources, next_source_id, next_article_id, now,
                   is_running, sw, ctl, canon, race>>

\* a call of Database.add_keyword
call_add_keyword(keyword) ==
    /\ ControlFree
    /\ LET r == add_keyword(keywords, keyword)
       IN  /\ Cardinality(r.rows) <= MaxKeywords
           /\ keywords' = r.rows
           /\ call' = [op |-> "add_keyword", arg |-> keyword, pre |-> keywords,
                       ret |-> r.ret]
    /\ UNCHANGED <<seedings, schedVars, news_sources, next_source_id, news_articles,
                   next_article_id, now, is_running, sw, ctl, canon, race>>

\* a call of Database.delete_keyword (the delete dialogue offers the stored
\* keywords, telegram_bot.py line 978-981)
call_delete_keyword(keyword) ==
    /\ ControlFree
    /\ LET r == delete_keyword(keywords, keyword)
       IN  /\ keywords' = r.rows
           /\ call' = [op |-> "delete_keyword", arg |-> keyword, pre |-> keywords,
                       ret |-> r.ret]
    /\ UNCHANGED <<seedings, schedVars, news_sources, next_source_id, news_articles,
                   next_article_id, now, is_running, sw, ctl, canon, race>>

\* a call of Database.get_keywords
call_get_keywords ==
    /\ ControlFree
    /\ call' = [op |-> "get_keywords", arg |-> <<>>, pre |-> keywords,
                ret |-> get_keywords(keywords)]
    /\ UNCHANGED <<kwVars, schedVars, news_sources, next_source_id, news_articles,
                   next_article_id, now, is_running, sw, ctl, canon, race>>

\* a call of NewsScraper.is_marketplace_related
call_is_marketplace_related(text) ==
    /\ call' = [op |-> "is_marketplace_related", arg |-> text, pre |-> keywords,
                ret |-> is_marketplace_related(text)]
    /\ UNCHANGED <<kwVars, schedVars, news_sources, next_source_id, news_articles,
                   next_article_id, now, is_running, sw, ctl, canon, race>>

NextKeywords ==
    \/ init_database
    \/ \E keyword \in Words : call_add_keyword(keyword)
    \/ \E keyword \in Words \cup keywords : call_delete_keyword(keyword)
    \/ call_get_keywords
    \/ \E text \in Texts : call_is_marketplace_related(text)

SpecKeywords == InitKeywords /\ [][NextKeywords]_vars

---------------------------------------------------------------------------
(* Specification of the scheduler: start_scheduler and stop_scheduler called *)
(* in any order, the loop threads, and the sweeps of the timer               *)

LoopThreads == 1..MaxStarts

NextScheduler ==
    \/ thread < MaxStarts /\ start_scheduler
    \/ stop_scheduler
    \/ stop_join_return
    \/ stop_join_timeout
    \/ \E th \in LoopThreads : run_pending(th)
    \/ \E th \in LoopThreads : loop_exit(th)
    \/ next_source_id <= MaxSources /\ receive_type("Demo", DemoUrl, "website")
    \/ sweep_source("timer")
    \/ sweep_article("timer")
    \/ sweep_insert("timer")
    \/ sweep_count("timer")
    \/ sweep_last_check("timer")
    \/ sweep_except("timer")
    \/ sweep_return("timer")

SpecScheduler == Init /\ [][NextScheduler]_vars

---------------------------------------------------------------------------
(* Specifications of the source table: the store is opened on a file that   *)
(* holds sources of every type, active or switched off (the bot lists a     *)
(* source whose is_active is 0 with its own mark, telegram_bot.py line 563). *)
(* SpecSources: update_source_details is called with every name and URL.    *)
(* SpecActive: the manual sweep runs over the table.                        *)

\* the URLs of the stored sources and of the updates, as normalize_url leaves
\* them
StoredUrls == {<<"a">>, <<"a", "/", "a">>}

\* the tables of at most MaxRegistrySources sources with distinct URLs
\* and types of the set types
SourceTables(types) ==
    UNION {{{[SourceRow(i, f[i][1], f[i][2], f[i][3], NULL) EXCEPT !.is_active = f[i][4]]
                : i \in 1..n} :
               f \in {g \in [1..n -> SourceNames \X StoredUrls \X types \X {0, 1}] :
                         \A i, j \in 1..n : i # j => g[i][2] # g[j][2]}}
           : n \in 0..MaxRegistrySources}

\* all but the source table
InitStore ==
    /\ next_source_id = Cardinality(news_sources) + 1
    /\ news_articles = {}
    /\ next_article_id = 1
    /\ now = 0
    /\ is_running = FALSE
    /\ sw = [t \in Threads |-> IdleFrame]
    /\ ctl = IdleCtl
    /\ race = NoRace
    /\ jobs = <<>>
    /\ loops = {}
    /\ thread = None
    /\ call = NoCall
    /\ canon = CanonOff
    /\ keywords = seed_initial_keywords({}).rows
    /\ seedings = 1

InitSources == news_sources \in SourceTables(SourceTypes) /\ InitStore

InitActive == news_sources \in SourceTables({"website"}) /\ InitStore

\* a call of Database.update_source_details(source_id, name=name, url=url)
call_update_source_details(source_id, name, url) ==
    /\ ControlFree
    /\ LET r == update_source_details(source_id, name, url)
       IN  /\ news_sources' = r.rows
           /\ call' = [op |-> "update_source_details",
                       arg |-> [source_id |-> source_id, name |-> name, url |-> url],
                       pre |-> news_sources, raised |-> r.raised]
    /\ UNCHANGED <<kwVars, schedVars, next_source_id, news_articles, next_article_id, now,
                   is_running, sw, ctl, canon, race>>

NextSources ==
    \/ \E id \in RegistryIds, name \in SourceNames \cup {""}, url \in StoredUrls \cup {<<>>} :
          call_update_source_details(id, name, url)
    \/ \E id \in RegistryIds : delete_source(id)

SpecSources == InitSources /\ [][NextSources]_vars

NextActive ==
    \/ force_check_sources
    \/ sweep_source("manual")
    \/ sweep_article("manual")
    \/ sweep_insert("manual")
    \/ sweep_count("manual")
    \/ sweep_last_check("manual")
    \/ sweep_except("manual")
    \/ sweep_return("manual")

SpecActive == InitActive /\ [][NextActive]_vars

---------------------------------------------------------------------------
(* NewsScraper: the fetch strategies. The collaborators (feedparser, the    *)
(* HTTP session, the headless browser, the page analysis, the channel       *)
(* client) are inputs: env tells what each of them does in one call.        *)

\* the host of the site with the known layout ('shoppers.media')
SHOPPERS_MEDIA == <<"a">>

\* urlparse(url).hostname: the lower-cased netloc, which urlparse finds only
\* behind '//'; a URL without it has no hostname (None, here the empty text)
Hostname(url) ==
    LET rest == IF StartsWith(Lower(url), SchemeHttp) \/ StartsWith(Lower(url), SchemeHttps)
                THEN Drop(url, 3)
                ELSE IF StartsWith(url, <<"/", "/">>) THEN Drop(url, 2)
                ELSE <<>>
    IN  Lower(Netloc(rest))

\* urlparse(url) raises ValueError on a netloc with '[' and no ']'
HostnameFails(url) ==
    \/ /\ StartsWith(Lower(url), SchemeHttp) \/ StartsWith(Lower(url), SchemeHttps)
       /\ ParseFails(Drop(url, 3))
    \/ StartsWith(url, <<"/", "/">>) /\ ParseFails(Drop(url, 2))

\* what a collaborator finds: the link, the text (title and summary or
\* content) and whether the entry is dated more than 24 hours back
ItemUrls == {<<"http:", "/", "/", "a">>, <<"WWW.", "a", "/", "a">>}
ItemTexts == {<<"A">>, <<"b">>}
Items == [url : ItemUrls, text : ItemTexts, old : BOOLEAN]
ItemLists == UNION {[1..k -> Items] : k \in 0..MaxCands}

\* the outcome of the call of the collaborator: it raises (ok = FALSE) or
\* hands back a list
Outcomes ==
    {[ok |-> FALSE, items |-> <<>>]} \cup {[ok |-> TRUE, items |-> l] : l \in ItemLists}

\* telegram_client: the channel client is configured; html:
\* _get_dynamic_page_source got a page (it hands back '' on any failure);
\* result: feedparser.parse / session.get and the parse of the cards /
\* the walk over the list of find_articles_on_page / asyncio.run(
\* get_channel_messages)
Envs == [telegram_client : BOOLEAN, html : BOOLEAN, result : Outcomes]

Returned(list) == [raised |-> FALSE, ret |-> list]
Raised == [raised |-> TRUE, ret |-> <<>>]

Relevant(it) == is_marketplace_related(it.text)
Fresh(it) == ~it.old /\ is_marketplace_related(it.text)

\* NewsScraper.scrape_rss_feed: entries older than 24 hours and entries that
\* are not relevant are left out; except Exception: []
scrape_rss_feed(url, env) ==
    IF ~env.result.ok THEN Returned(<<>>)
    ELSE Returned(SelectSeq(env.result.items, Fresh))

\* NewsScraper.scrape_website_with_mistral: no page, no candidates; every
\* article the page analysis found becomes a candidate
scrape_website_with_mistral(url, env) ==
    IF ~env.html THEN Returned(<<>>)
    ELSE IF ~env.result.ok THEN Raised
    ELSE Returned(env.result.items)

\* NewsScraper.scrape_website (line 212-222), the body of the try
scrape_website_body(url, env) ==
    IF HostnameFails(url) THEN Raised
    ELSE IF Hostname(url) = SHOPPERS_MEDIA
    THEN IF ~env.result.ok THEN Raised
         ELSE Returned(SelectSeq(env.result.items, Relevant))
    ELSE scrape_website_with_mistral(url, env)

\* NewsScraper.scrape_website: except RequestException / Exception: []
scrape_website(url, env) ==
    IF scrape_website_body(url, env).raised THEN Returned(<<>>)
    ELSE scrape_website_body(url, env)

\* mutant: the channel strategy without its try
scrape_telegram_channel_notry(channel_url, env) ==
    IF ~env.telegram_client THEN Returned(<<>>)
    ELSE IF ~env.result.ok THEN Raised
    ELSE Returned(SelectSeq(env.result.items, Relevant))

\* NewsScraper.scrape_telegram_channel: no client, no candidates; the
\* relevant messages; except Exception: []
scrape_telegram_channel(channel_url, env) ==
    IF ~env.telegram_client THEN Returned(<<>>)
    ELSE IF ~env.result.ok THEN Returned(<<>>)
    ELSE Returned(SelectSeq(env.result.items, Relevant))

\* NewsScraper.scrape_source
scrape_source(source_type, url, env) ==
    IF source_type = "rss" THEN scrape_rss_feed(url, env)
    ELSE IF source_type = "website" THEN scrape_website(url, env)
    ELSE IF source_type = "telegram" THEN scrape_telegram_channel(url, env)
    ELSE Returned(<<>>)

---------------------------------------------------------------------------
(* Specifications of the scraper, over a store of one source with the       *)
(* keyword table empty or not.                                              *)
(* SpecScraper: one call of scrape_source, with every type, known or not,   *)
(* and every behaviour of the collaborators.                                *)
(* SpecRelevance: the manual sweep runs with the scraper behind it.         *)

\* the types scrape_source is called with: the three of the add-source flow
\* and one it does not know
CalledTypes == SourceTypes \cup {"atom"}

\* the URLs scrape_source is called with
CalledUrls == StoredUrls \cup {<<"http:", "/", "/", "a">>, <<"https:", "/", "/", "[">>}

\* the calls of scrape_source that are about to be made
PendingCalls ==
    {[op |-> "pending", arg |-> [source_type |-> source_type, url |-> url],
      env |-> env, raised |-> FALSE, ret |-> <<>>] :
        source_type \in CalledTypes, url \in CalledUrls, env \in Envs}

InitScraper ==
    /\ news_sources \in {{SourceRow(1, "Demo", url, source_type, NULL)} :
                            url \in StoredUrls, source_type \in SourceTypes}
    /\ next_source_id = 2
    /\ news_articles = {}
    /\ next_article_id = 1
    /\ now = 0
    /\ is_running = FALSE
    /\ sw = [t \in Threads |-> IdleFrame]
    /\ ctl = IdleCtl
    /\ race = NoRace
    /\ jobs = <<>>
    /\ loops = {}
    /\ thread = None
    /\ call = NoCall
    /\ canon = CanonOff
    /\ keywords \in {{}, {<<"a">>}}
    /\ seedings = 1

InitCalls ==
    /\ news_sources = {}
    /\ next_source_id = 1
    /\ news_articles = {}
    /\ next_article_id = 1
    /\ now = 0
    /\ is_running = FALSE
    /\ sw = [t \in Threads |-> IdleFrame]
    /\ ctl = IdleCtl
    /\ race = NoRace
    /\ jobs = <<>>
    /\ loops = {}
    /\ thread = None
    /\ canon = CanonOff
    /\ keywords \in {{}, {<<"a">>}}
    /\ seedings = 1
    /\ call \in PendingCalls

\* the call of NewsScraper.scrape_source(source_type, url)
call_scrape_source ==
    /\ call.op = "pending"
    /\ LET r == scrape_source(call.arg.source_type, call.arg.url, call.env)
       IN  call' = [call EXCEPT !.op = "scrape_source", !.raised = r.raised,
                                !.ret = r.ret]
    /\ UNCHANGED <<kwVars, schedVars, news_sources, next_source_id, news_articles,
                   next_article_id, now, is_running, sw, ctl, canon, race>>

ItemUrlsOf(list) == [i \in 1..Len(list) |-> list[i].url]

\* line 70-75 with the scraper behind it: next source of the loop,
\* scrape_source(source['source_type'], source['url']); what it raises goes
\* to the except branch of line 99; line 102-107: return.
\* History: call keeps what scrape_source handed back.
sweep_scrape(t) ==
    /\ sw[t].pc = "source"
    /\ IF sw[t].sources = <<>>
       THEN /\ sw' = [sw EXCEPT ![t].pc = "return"]
            /\ UNCHANGED call
       ELSE \E env \in Envs :
               LET source == CHOOSE s \in news_sources : s.id = Head(sw[t].sources).id
                   r == scrape_source(source.source_type, source.url, env)
               IN  /\ call' = [op |-> "scrape_source",
                               arg |-> [source_type |-> source.source_type,
                                        url |-> source.url],
                               env |-> env, raised |-> r.raised, ret |-> r.ret]
                   /\ sw' = IF r.raised
                            THEN [sw EXCEPT ![t].sources = Tail(sw[t].sources),
                                            ![t].raised = @ \cup {Head(sw[t].sources).id}]
                            ELSE [sw EXCEPT ![t].pc = "article",
                                            ![t].articles = ItemUrlsOf(r.ret)]
    /\ UNCHANGED <<kwVars, schedVars, news_sources, next_source_id, news_articles,
                   next_article_id, now, is_running, ctl, canon, race>>

NextScraper ==
    call_scrape_source

SpecScraper == InitCalls /\ [][NextScraper]_vars

NextRelevance ==
    \/ force_check_sources
    \/ sweep_scrape("manual")
    \/ sweep_article("manual")
    \/ sweep_insert("manual")
    \/ sweep_count("manual")
    \/ sweep_last_check("manual")
    \/ sweep_return("manual")

SpecRelevance == InitScraper /\ [][NextRelevance]_vars

\* SpecDispatch: webpage sources are registered through the add-source
\* dialogue and the manual sweep runs with the scraper behind it
NextDispatch ==
    \/ /\ next_source_id <= MaxSources
       /\ \E url \in SourceUrls : receive_type("Demo", url, "website")
    \/ force_check_sources
    \/ sweep_scrape("manual")
    \/ sweep_article("manual")
    \/ sweep_insert("manual")
    \/ sweep_count("manual")
    \/ sweep_last_check("manual")
    \/ sweep_return("manual")

SpecDispatch == Init /\ [][NextDispatch]_vars

---------------------------------------------------------------------------
(* Specification of the retention job: delete_old_articles applied to every *)
(* small table of articles of every status and age                          *)

\* one day, in units of the clock: datetime('now', '-N days') moves the
\* threshold by N of them, and created_at has a finer resolution than a day
Day == 2

Statuses == {"pending", "rejected", "published"}

\* mutant of delete_old_articles: the retention spares what is not pending
delete_old_articles_pendingonly(rows, days_old) ==
    LET old == {a \in rows : a.created_at < now - days_old * Day /\ a.status = "pending"}
    IN  [ret |-> Cardinality(old), rows |-> rows \ old]

\* Database.delete_old_articles: DELETE FROM news_articles WHERE created_at <
\* datetime('now', '-N days'); returns cursor.rowcount
delete_old_articles(rows, days_old) ==
    LET old == {a \in rows : a.created_at < now - days_old * Day}
    IN  [ret |-> Cardinality(old), rows |-> rows \ old]

\* the article with id i, stored with status st at time t
StoredArticle(i, st, t) ==
    Row(i, 1, [k \in 1..i |-> "a"], st, t, IF st = "published" THEN t ELSE NULL)

\* the tables of at most MaxArticleId articles, every status and every
\* creation time up to MaxAge
ArticleTables ==
    UNION {{{StoredArticle(i, f[i][1], f[i][2]) : i \in 1..n} :
               f \in [1..n -> Statuses \X (0..MaxAge)]} : n \in 0..MaxArticleId}

InitRetention ==
    /\ news_sources = {SourceRow(1, "Demo", normalize_url(DemoUrl), "website", NULL)}
    /\ next_source_id = 2
    /\ news_articles \in ArticleTables
    /\ next_article_id = Cardinality(news_articles) + 1
    /\ now = MaxAge
    /\ is_running = FALSE
    /\ sw = [t \in Threads |-> IdleFrame]
    /\ ctl = IdleCtl
    /\ race = NoRace
    /\ jobs = <<>>
    /\ loops = {}
    /\ thread = None
    /\ call = NoCall
    /\ canon = CanonOff
    /\ keywords = seed_initial_keywords({}).rows
    /\ seedings = 1

\* a call of Database.delete_old_articles(days_old); cleanup_old_news_job
\* calls it with days_old = 7
call_delete_old_articles(days_old) ==
    /\ LET r == delete_old_articles(news_articles, days_old)
       IN  /\ news_articles' = r.rows
           /\ call' = [op |-> "delete_old_articles", arg |-> days_old,
                       pre |-> news_articles, ret |-> r.ret]
    /\ UNCHANGED <<kwVars, schedVars, news_sources, next_source_id, next_article_id,
                   now, is_running, sw, ctl, canon, race>>

NextRetention ==
    \E days_old \in 0..MaxDays : call_delete_old_articles(days_old)

SpecRetention == InitRetention /\ [][NextRetention]_vars

\* NewsScheduler.cleanup_old_news_job, run by run_pending after the sweep
cleanup_old_news_job(t) ==
    /\ sw[t].pc = "cleanup"
    /\ news_articles' = delete_old_articles(news_articles, 7).rows
    /\ sw' = [sw EXCEPT ![t] = IdleFrame]
    /\ UNCHANGED <<kwVars, schedVars, call, news_sources, next_source_id, next_article_id,
                   now, is_running, ctl, canon, race>>

\* SpecDue: the scheduler with rounds in which both jobs are due
NextDue ==
    \/ NextScheduler
    \/ \E th \in LoopThreads : run_pending_both(th)
    \/ cleanup_old_news_job("timer")

SpecDue == Init /\ [][NextDue]_vars

---------------------------------------------------------------------------
(* Specification of two sweeps in a row: two registered sources, what each *)
(* of them returns drawn once and returned at both sweeps, and a candidate *)
(* whose processing raises at both sweeps; no other operation              *)

\* what scrape_source returns for the source with the id, at every sweep
Feeds == [1..2 -> CandidateLists]

\* the candidate whose processing raises inside the loop body (<<>>: none)
Poisons == RawUrls \cup {<<>>}

InitTwice ==
    /\ news_sources = {SourceRow(1, "Demo", normalize_url(DemoUrl), "website", NULL),
                       SourceRow(2, "News", <<"a">>, "rss", NULL)}
    /\ next_source_id = 3
    /\ news_articles = {}
    /\ next_article_id = 1
    /\ now = 0
    /\ is_running = FALSE
    /\ sw = [t \in Threads |-> IdleFrame]
    /\ ctl = IdleCtl
    /\ race = NoRace
    /\ jobs = <<>>
    /\ loops = {}
    /\ thread = None
    /\ call \in [op : {"sweeps"}, feeds : Feeds, poison : Poisons, sweeps : {0}]
    /\ canon = CanonOff
    /\ keywords = seed_initial_keywords({}).rows
    /\ seedings = 1

\* NewsScheduler.force_check_sources, called for the first and for the
\* second time. History: call.sweeps counts the sweeps begun.
force_check_sources_again ==
    /\ ControlFree
    /\ call.sweeps < 2
    /\ BeginSweep("manual", None)
    /\ call' = [call EXCEPT !.sweeps = @ + 1]
    /\ UNCHANGED <<kwVars, schedVars, news_sources, next_source_id, news_articles,
                   next_article_id, now, is_running, ctl, canon, race>>

\* the candidate the loop body is about to process (<<>>: none)
AtCandidate(t) ==
    IF sw[t].pc = "article" /\ sw[t].articles # <<>> THEN Head(sw[t].articles) ELSE <<>>

NextTwice ==
    \/ force_check_sources_again /\ ~sw'["manual"].failed
    \/ /\ sweep_source("manual")
       /\ sw'["manual"].pc = "article"
             => sw'["manual"].articles = call.feeds[Head(sw["manual"].sources).id]
    \/ (AtCandidate("manual") = <<>> \/ AtCandidate("manual") # call.poison)
          /\ sweep_article("manual")
    \/ (AtCandidate("manual") # <<>> /\ AtCandidate("manual") = call.poison)
          /\ sweep_except("manual")
    \/ sweep_insert("manual") \/ sweep_count("manual")
    \/ sweep_last_check("manual") \/ sweep_return("manual")

SpecTwice == InitTwice /\ [][NextTwice]_vars

---------------------------------------------------------------------------
(* Specification of a restart: a registered source, manual sweeps that     *)
(* fill the store, and Database() constructed again on that store          *)

NextRestart ==
    \/ /\ next_source_id <= MaxSources
       /\ receive_type("Demo", DemoUrl, "website")
    \/ force_check_sources
    \/ sweep_source("manual") \/ sweep_article("manual") \/ sweep_insert("manual")
    \/ sweep_count("manual") \/ sweep_last_check("manual") \/ sweep_return("manual")
    \/ init_database

SpecRestart == Init /\ [][NextRestart]_vars

---------------------------------------------------------------------------
(* Specification of the review of an article: the buttons of the review     *)
(* message (article_N, rewrite_N, new_image_N) are pressed on a store of at  *)
(* most one article, with every behaviour of the content-transformation     *)
(* and of the image collaborator                                            *)

\* not x, for a text or None
Falsy(x) == x = NULLTEXT \/ x = <<>>

\* json.dumps of a list of hashtags
json_dumps(list) == <<"[">> \o list \o <<"]">>

OriginalContent == <<"b">>
NewTitle == <<"c">>
NewContent == <<"d">>
NewTags == <<"#c">>
OldPath == <<"images/", "1">>
NewPath == <<"images/", "2">>

\* the article with id 1 as the sweep and earlier reviews have left it
ReviewedArticle(status, original_title, rewritten, image_path) ==
    [id |-> 1, source_id |-> 1, original_url |-> <<"a">>, status |-> status,
     created_at |-> 0, published_at |-> IF status = "published" THEN 0 ELSE NULL,
     original_title |-> original_title, original_content |-> OriginalContent,
     rewritten_title |-> IF rewritten THEN NewTitle ELSE NULLTEXT,
     rewritten_content |-> IF rewritten THEN NewContent ELSE NULLTEXT,
     hashtags |-> IF rewritten THEN json_dumps(NewTags) ELSE NULLTEXT,
     image_url |-> IF image_path = NULLTEXT THEN NULLTEXT ELSE <<>>,
     image_path |-> image_path]

ReviewTables ==
    {{}} \cup {{ReviewedArticle(st, t, rw, p)} :
                  st \in Statuses, t \in {<<>>, <<"a">>}, rw \in BOOLEAN,
                  p \in {NULLTEXT, OldPath}}

\* the content-transformation collaborator raises (ok = FALSE) or answers
\* with a JSON object that has the three keys or none of them
RewriteOutcomes ==
    {[ok |-> FALSE, keys |-> {}]} \cup
    {[ok |-> TRUE, keys |-> k] : k \in {{}, {"title", "content", "hashtags"}}}

\* the image collaborator raises or the image is stored under a new path
ImageOutcomes == [ok : BOOLEAN]

\* rewrite, image: the calls of the handler itself; rewrite2, image2: the
\* calls of send_article_for_review
ReviewEnvs ==
    [rewrite : RewriteOutcomes, image : ImageOutcomes,
     rewrite2 : RewriteOutcomes, image2 : ImageOutcomes]

\* mutant: a failed rewrite comes back empty
rewrite_news_article_nofallback(title, content, out) ==
    IF ~out.ok THEN [title |-> <<>>, content |-> <<>>, hashtags |-> <<>>]
    ELSE [title |-> IF "title" \in out.keys THEN NewTitle ELSE title,
          content |-> IF "content" \in out.keys THEN NewContent ELSE content,
          hashtags |-> IF "hashtags" \in out.keys THEN NewTags ELSE <<>>]

\* MistralClient.rewrite_news_article: result_json.get(key, default);
\* except Exception: the title and the content it was given, no hashtags
rewrite_news_article(title, content, out) ==
    IF ~out.ok THEN [title |-> title, content |-> content, hashtags |-> <<>>]
    ELSE [title |-> IF "title" \in out.keys THEN NewTitle ELSE title,
          content |-> IF "content" \in out.keys THEN NewContent ELSE content,
          hashtags |-> IF "hashtags" \in out.keys THEN NewTags ELSE <<>>]

\* OpenAIClient.generate_image: the local path, or None on any failure
generate_image(out) == IF out.ok THEN NewPath ELSE NULLTEXT

\* Database.update_article_rewrite
update_article_rewrite(rows, article_id, rewritten_title, rewritten_content, hashtags) ==
    {IF a.id = article_id
     THEN [a EXCEPT !.rewritten_title = rewritten_title,
                    !.rewritten_content = rewritten_content,
                    !.hashtags = json_dumps(hashtags)]
     ELSE a : a \in rows}

\* Database.update_article_image
update_article_image(rows, article_id, image_url, image_path) ==
    {IF a.id = article_id
     THEN [a EXCEPT !.image_url = image_url, !.image_path = image_path]
     ELSE a : a \in rows}

\* NewsBot.send_article_for_review, line 303-328: an article without a
\* rewritten title is rewritten and illustrated first
send_article_for_review(rows, article_id, env) ==
    IF ~\E a \in rows : a.id = article_id THEN rows
    ELSE LET article == CHOOSE a \in rows : a.id = article_id
         IN  IF Falsy(article.rewritten_title)
             THEN LET rewritten == rewrite_news_article(article.original_title,
                                       article.original_content, env.rewrite2)
                      image_url == generate_image(env.image2)
                      rows1 == update_article_rewrite(rows, article_id,
                                   rewritten.title, rewritten.content,
                                   rewritten.hashtags)
                  IN  IF ~Falsy(image_url)
                      THEN update_article_image(rows1, article_id, <<>>, image_url)
                      ELSE rows1
             ELSE rows

\* int(s): the number, or ValueError
Numerals == <<"1", "2">>
int(s) ==
    IF \E k \in 1..Len(Numerals) : Numerals[k] = s
    THEN [raised |-> FALSE, value |-> CHOOSE k \in 1..Len(Numerals) : Numerals[k] = s]
    ELSE [raised |-> TRUE, value |-> None]

\* the callback data of the buttons, as data.split("_") sees them
ArticleData == {<<"article", n>> : n \in {"1", "2"}}
RewriteData == {<<"rewrite", n>> : n \in {"1", "2"}}
NewImageData == {<<"new", "image", n>> : n \in {"1", "2"}}

\* int(data.split("_")[1])
ParseArticleId(data) == int(data[2])

\* NewsBot.show_article_details
show_article_details(data, env) ==
    /\ ControlFree
    /\ data \in ArticleData
    /\ LET id == ParseArticleId(data)
       IN  /\ news_articles' = IF id.raised THEN news_articles
                               ELSE send_article_for_review(news_articles, id.value, env)
           /\ call' = [op |-> "show_article_details", data |-> data, env |-> env,
                       raised |-> id.raised]
    /\ UNCHANGED <<kwVars, schedVars, news_sources, next_source_id, next_article_id, now,
                   is_running, sw, ctl, canon, race>>

\* NewsBot.rewrite_article
rewrite_article(data, env) ==
    /\ ControlFree
    /\ data \in RewriteData
    /\ LET id == ParseArticleId(data)
       IN  /\ news_articles' =
                 IF id.raised \/ ~ArticleExistsById(id.value) THEN news_articles
                 ELSE LET article == CHOOSE a \in news_articles : a.id = id.value
                          rewritten == rewrite_news_article(article.original_title,
                                           article.original_content, env.rewrite)
                      IN  send_article_for_review(
                              update_article_rewrite(news_articles, id.value,
                                  rewritten.title, rewritten.content,
                                  rewritten.hashtags),
                              id.value, env)
           /\ call' = [op |-> "rewrite_article", data |-> data, env |-> env,
                       raised |-> id.raised]
    /\ UNCHANGED <<kwVars, schedVars, news_sources, next_source_id, next_article_id, now,
                   is_running, sw, ctl, canon, race>>

\* NewsBot.generate_new_image
generate_new_image(data, env) ==
    /\ ControlFree
    /\ data \in NewImageData
    /\ LET id == ParseArticleId(data)
       IN  /\ news_articles' =
                 IF id.raised \/ ~ArticleExistsById(id.value) THEN news_articles
                 ELSE LET image_path == generate_image(env.image)
                      IN  send_article_for_review(
                              IF ~Falsy(image_path)
                              THEN update_article_image(news_articles, id.value,
                                                        <<>>, image_path)
                              ELSE news_articles,
                              id.value, env)
           /\ call' = [op |-> "generate_new_image", data |-> data, env |-> env,
                       raised |-> id.raised]
    /\ UNCHANGED <<kwVars, schedVars, news_sources, next_source_id, next_article_id, now,
                   is_running, sw, ctl, canon, race>>

InitReview ==
    /\ news_sources = {SourceRow(1, "Demo", normalize_url(DemoUrl), "website", NULL)}
    /\ next_source_id = 2
    /\ news_articles \in ReviewTables
    /\ next_article_id = Cardinality(news_articles) + 1
    /\ now = 0
    /\ is_running = FALSE
    /\ sw = [t \in Threads |-> IdleFrame]
    /\ ctl = IdleCtl
    /\ race = NoRace
    /\ jobs = <<>>
    /\ loops = {}
    /\ thread = None
    /\ call = NoCall
    /\ canon = CanonOff
    /\ keywords = seed_initial_keywords({}).rows
    /\ seedings = 1

NextReview ==
    \/ \E data \in ArticleData, env \in ReviewEnvs : show_article_details(data, env)
    \/ \E data \in RewriteData, env \in ReviewEnvs : rewrite_article(data, env)
    \/ \E data \in NewImageData, env \in ReviewEnvs : generate_new_image(data, env)

SpecReview == InitReview /\ [][NextReview]_vars

---------------------------------------------------------------------------
(* Specification of publishing: publish_article pressed on the article of  *)
(* a drawn table, or on an id the table does not hold, with the channel    *)
(* configured or not and the post succeeding or raising                    *)

\* history: the posts made to the target channel so far, per article id
Posted ==
    IF call.op = "publish_article" THEN call.posted ELSE [i \in ArticleIds |-> 0]

\* env.configured: TARGET_CHANNEL_ID is set; env.sent: send_photo /
\* send_message to the channel returned; rewrite2, image2: the collaborators
\* of the review of the next pending article
PublishEnvs ==
    [configured : BOOLEAN, sent : BOOLEAN,
     rewrite2 : RewriteOutcomes, image2 : ImageOutcomes]

\* the table after the handler's last step: the first article of
\* get_pending_articles() is sent for review (the order of that listing is
\* not fixed here: any pending article may be the first)
PublishTail(rows, env) ==
    LET pending == {a \in rows : a.status = "pending"}
    IN  IF pending = {} THEN {rows}
        ELSE {send_article_for_review(rows, a.id, env) : a \in pending}

\* the handler with the status written before the post is attempted
call_publish_article_statusfirst(article_id, env) ==
    /\ ControlFree
    /\ LET found == ArticleExistsById(article_id)
           posts == env.configured /\ found /\ env.sent
           rows1 == IF env.configured /\ found
                    THEN update_article_status(article_id, "published")
                    ELSE news_articles
       IN  /\ news_articles' \in (IF posts THEN PublishTail(rows1, env) ELSE {rows1})
           /\ call' = [op |-> "publish_article", article_id |-> article_id,
                       env |-> env, posts |-> posts,
                       posted |-> [Posted EXCEPT ![article_id] =
                                      IF posts THEN @ + 1 ELSE @]]
    /\ UNCHANGED <<kwVars, schedVars, news_sources, next_source_id, next_article_id,
                   now, is_running, sw, ctl, canon, race>>

\* NewsBot.publish_article, line 463-535: no channel id, or no such article:
\* return; the post to the channel; only then update_article_status; a raise
\* of the post is caught and ends the handler; the current status of the
\* article is never read
call_publish_article(article_id, env) ==
    /\ ControlFree
    /\ LET found == ArticleExistsById(article_id)
           posts == env.configured /\ found /\ env.sent
           rows1 == IF posts
                    THEN update_article_status(article_id, "published")
                    ELSE news_articles
       IN  /\ news_articles' \in (IF posts THEN PublishTail(rows1, env) ELSE {rows1})
           /\ call' = [op |-> "publish_article", article_id |-> article_id,
                       env |-> env, posts |-> posts,
                       posted |-> [Posted EXCEPT ![article_id] =
                                      IF posts THEN @ + 1 ELSE @]]
    /\ UNCHANGED <<kwVars, schedVars, news_sources, next_source_id, next_article_id,
                   now, is_running, sw, ctl, canon, race>>

NextPublish ==
    \E article_id \in ArticleIds, env \in PublishEnvs :
        /\ Posted[article_id] < MaxPosts
        /\ call_publish_article(article_id, env)

SpecPublish == InitReview /\ [][NextPublish]_vars

---------------------------------------------------------------------------
(* Specification of the canonicalizer: normalize_url applied to every string *)
(* of at most MaxUrlLen atoms, and to pairs of spellings of one address     *)

\* the spellings of an address: scheme, 'www.' label, trailing slash, query
\* string and fragment around a base (host and path)
Variants ==
    [scheme : {SchemeHttp, SchemeHttps},
     www : {<<>>, <<"www.">>},
     slash : {<<>>, <<"/">>},
     query : {<<>>, <<"?", "/">>},
     fragment : {<<>>, <<"#", "?">>}]

Variant(base, v) == v.scheme \o v.www \o base \o v.slash \o v.query \o v.fragment

\* a numbering of the spellings: agreement is symmetric, so each unordered
\* pair of spellings is taken once
VariantRank(v) ==
    (IF v.scheme = SchemeHttps THEN 16 ELSE 0) + (IF v.www # <<>> THEN 8 ELSE 0)
    + (IF v.slash # <<>> THEN 4 ELSE 0) + (IF v.query # <<>> THEN 2 ELSE 0)
    + (IF v.fragment # <<>> THEN 1 ELSE 0)

\* a base carries none of the five: no leading 'www.' label, no trailing
\* slash, no query, no fragment
IsBase(u) ==
    /\ Len(u) <= MaxBaseLen
    /\ ~StartsWith(u, <<"www.">>)
    /\ (Len(u) > 0 => u[Len(u)] # "/")
    /\ \A i \in 1..Len(u) : u[i] \notin {"?", "#"}

InitCanon ==
    /\ InitProgram
    /\ canon \in {[CanonOff EXCEPT !.step = "input", !.url = u] : u \in Urls(MaxUrlLen)}

\* normalize_url(u)
Canonicalize ==
    /\ canon.step = "input"
    /\ canon' = [canon EXCEPT !.step = "once", !.once = normalize_url(canon.url)]
    /\ UNCHANGED <<kwVars, schedVars, call, news_sources, next_source_id, news_articles, next_article_id,
                   now, is_running, sw, ctl, race>>

\* normalize_url(normalize_url(u))
Recanonicalize ==
    /\ canon.step = "once"
    /\ canon' = [canon EXCEPT !.step = "twice", !.twice = normalize_url(canon.once)]
    /\ UNCHANGED <<kwVars, schedVars, call, news_sources, next_source_id, news_articles, next_article_id,
                   now, is_running, sw, ctl, race>>

\* normalize_url(u1), normalize_url(u2) for two spellings of the base
CanonicalizePair(v1, v2) ==
    /\ canon.step = "input"
    /\ IsBase(canon.url)
    /\ VariantRank(v1) <= VariantRank(v2)
    /\ LET u1 == Variant(canon.url, v1)
           u2 == Variant(canon.url, v2)
       IN  canon' = [canon EXCEPT !.step = "pair", !.base = canon.url,
                                  !.url = u1, !.other = u2,
                                  !.once = normalize_url(u1),
                                  !.other_once = normalize_url(u2)]
    /\ UNCHANGED <<kwVars, schedVars, call, news_sources, next_source_id, news_articles, next_article_id,
                   now, is_running, sw, ctl, race>>

NextCanon ==
    \/ Canonicalize
    \/ Recanonicalize
    \/ \E v1, v2 \in Variants : CanonicalizePair(v1, v2)

SpecCanon == InitCanon /\ [][NextCanon]_vars

---------------------------------------------------------------------------
(* Properties *)

\* C1: at most one ingestion sweep is executing at any time: the sweep of the
\* scheduler thread and the sweep of the manual trigger never overlap.
C1_AtMostOneSweep == ~(InFlight("timer") /\ InFlight("manual"))

\* the source a sweep is working on (fetched, not yet checkpointed)
Processing(t) ==
    IF sw[t].pc \in {"article", "insert", "count", "last_check"}
    THEN {Head(sw[t].sources).id} ELSE {}

\* C2: a manual trigger that arrives while the timer sweep is in flight runs
\* no sweep (it is answered SchedulerBusy), and no source is in the hands of
\* two sweeps at once.
C2_ManualRejectedWhenBusy ==
    /\ [][(InFlight("timer") /\ ~InFlight("manual")) => ~InFlight("manual")']_vars
    /\ [](Processing("timer") \cap Processing("manual") = {})

\* C3: no two stored articles have original_url values with the same
\* canonical form.
C3_CanonicalUnique ==
    \A a, b \in news_articles :
        a.id # b.id => normalize_url(a.original_url) # normalize_url(b.original_url)

\* the two inserts of a race have both returned (race: both threads passed
\* the article_exists pre-check for the same URL before either inserted; a
\* deletion of articles in between closes the race)
RaceOver == Len(race.rets) = 2

C5_TerminalStatus ==
    [][\A a \in news_articles :
          a.status \in {"rejected", "published"} =>
              \A b \in news_articles' : b.id = a.id => b.status = a.status]_vars

\* C6: an article has a non-null published_at exactly when its status is
\* published.
C6_PublishedAtIffPublished ==
    \A a \in news_articles : (a.published_at # NULL) <=> (a.status = "published")

\* the item lists of pages 1..n under the row orders ords, concatenated
RECURSIVE ConcatPages(_, _, _)
ConcatPages(n, page_size, ords) ==
    IF n = 0 THEN <<>>
    ELSE ConcatPages(n - 1, page_size, ords)
         \o get_pending_articles_paginated(n, page_size, ords[n]).items

\* C7: for every page size the pages 1, 2, ... concatenated hold every
\* pending article exactly once, newest first (the pages are taken from one
\* and the same row order).
C7_PagesCoverPending ==
    \A page_size \in PageSizes :
        \A ord \in Orderings(PageRows) :
            ConcatPages(MaxArticleId + 1, page_size, [k \in Pages |-> ord])
                \in Orderings({a \in news_articles : a.status = "pending"})

\* C8: no page of the pending listing holds an article whose status is
\* rejected or published.
C8_OnlyPendingListed ==
    ctl.pc = "render" =>
        \A i \in 1..Len(ctl.items) :
            \A a \in news_articles : a.id = ctl.items[i] => a.status = "pending"

C8_Witness ==
    /\ ctl.pc = "render"
    /\ Len(ctl.items) >= 1
    /\ \E a \in news_articles :
          a.status \in {"rejected", "published"} /\ SourceExists(a.source_id)

\* C9: the canonicalizer is idempotent:
\* normalize_url(normalize_url(u)) = normalize_url(u).
C9_Idempotent == canon.step = "twice" => canon.twice = canon.once

C11_EmptyOnlyForEmpty ==
    canon.step = "once" => (canon.once = <<>> <=> canon.url = <<>>)

\* the name under which the sweep listed source id
ListedName(f, id) ==
    f.listed[CHOOSE i \in 1..Len(f.listed) : f.listed[i].id = id].name

\* C12: when the processing of a source raises during a sweep, every other
\* listed source is still fetched and has its last_check written, by_source
\* has an entry for every listed source, and the entry of the source that
\* raised is 0.
C12_RaisingSourceIsolated ==
    \A t \in Threads :
        sw[t].pc = "return" =>
            \A i \in 1..Len(sw[t].listed) :
                LET source == sw[t].listed[i]
                IN  /\ source.id \notin sw[t].raised => source.id \in sw[t].checked
                    /\ source.name \in DOMAIN sw[t].by_source
                    /\ source.id \in sw[t].raised => sw[t].by_source[source.name] = 0

\* C12 (amended): every listed source that did not raise is fetched and has
\* its last_check written, by_source has an entry for every listed source,
\* and each entry is the number of articles the sweep inserted for the
\* sources of that name (what a source inserted before it raised included).
C12_RaisingSourceCounted ==
    \A t \in Threads :
        sw[t].pc = "return" =>
            /\ \A i \in 1..Len(sw[t].listed) :
                   LET source == sw[t].listed[i]
                   IN  /\ source.id \notin sw[t].raised => source.id \in sw[t].checked
                       /\ source.name \in DOMAIN sw[t].by_source
            /\ \A n \in DOMAIN sw[t].by_source :
                   sw[t].by_source[n] =
                       Cardinality({k \in 1..Len(sw[t].added) :
                                       ListedName(sw[t], sw[t].added[k]) = n})
            /\ sw[t].total = Len(sw[t].added)

C12_Witness ==
    /\ sw["manual"].pc = "return"
    /\ Len(sw["manual"].listed) = 2
    /\ Cardinality(sw["manual"].raised) = 1
    /\ Cardinality(sw["manual"].checked) = 1
    /\ \E n \in DOMAIN sw["manual"].by_source : sw["manual"].by_source[n] = 1

\* C13: source URLs are unique up to canonical form: a registration adds a
\* source only if no source already has a URL of the same canonical form
\* (otherwise it fails and leaves the sources unchanged), so no two sources
\* have URLs of the same canonical form.
C13_SourceUrlsCanonicalUnique ==
    \A s1, s2 \in news_sources :
        s1.id # s2.id => normalize_url(s1.url) # normalize_url(s2.url)

\* C14: when a source is deleted no article that refers to it remains: the
\* step that removes the source removes its articles with it.
C14_DeleteCascades ==
    [][\A s \in news_sources :
          (\A s2 \in news_sources' : s2.id # s.id) =>
              \A a \in news_articles' : a.source_id # s.id]_vars

\* C15: the built-in keyword list is inserted at most once over the lifetime
\* of the store, and an initialization never adds keywords to a store that
\* is not empty.
C15_SeededAtMostOnce ==
    /\ [](seedings <= 1)
    /\ [][(call'.op = "init_database" /\ keywords # {}) => keywords' = keywords]_vars

\* the sequence s is strictly ascending
Ascending(s) == \A i \in 1..(Len(s) - 1) : StrLess(s[i], s[i + 1])

\* C16: the keyword store is a set of lower-cased strings: add_keyword(w)
\* returns true and inserts lower(w) when it is absent and returns false and
\* changes nothing when it is present; delete_keyword(w) returns true and
\* removes lower(w) when present, false when absent; get_keywords returns
\* the distinct keywords in sorted order.
C16_KeywordSet ==
    /\ call.op = "add_keyword" =>
          /\ call.ret = (Lower(call.arg) \notin call.pre)
          /\ keywords = call.pre \cup {Lower(call.arg)}
    /\ call.op = "delete_keyword" =>
          /\ call.ret = (Lower(call.arg) \in call.pre)
          /\ keywords = call.pre \ {Lower(call.arg)}
    /\ call.op = "get_keywords" =>
          /\ {call.ret[i] : i \in 1..Len(call.ret)} = keywords
          /\ Len(call.ret) = Cardinality(keywords)
          /\ Ascending(call.ret)
    /\ \A k \in keywords : k = Lower(k)

C16_Witness ==
    /\ call.op = "add_keyword"
    /\ call.arg = <<"A">>
    /\ call.ret = FALSE
    /\ <<"a">> \in call.pre

\* C17: is_marketplace_related(text) is true exactly when the keyword set is
\* empty or some stored keyword is a case-insensitive substring of text.
C17_RelevantIffKeywordInText ==
    call.op = "is_marketplace_related" =>
        call.ret = (\/ keywords = {}
                    \/ \E k \in keywords : IsSubstring(Lower(k), Lower(call.arg)))

C17_Witness ==
    /\ call.op = "is_marketplace_related"
    /\ keywords = {<<"a", "b">>}
    /\ call.arg = <<"A", "b">>
    /\ call.ret = TRUE

\* C18: delete_old_articles(d) removes exactly the articles whose age exceeds
\* d days, whatever their status, leaves every younger article as it was, and
\* returns the number of articles it removed.
C18_RetentionByAge ==
    call.op = "delete_old_articles" =>
        /\ news_articles = {a \in call.pre : ~(now - a.created_at > call.arg * Day)}
        /\ call.ret = Cardinality({a \in call.pre : now - a.created_at > call.arg * Day})

\* one day of retention: an article of a day and a half is removed though it
\* is published, an article of exactly one day stays
C18_Witness ==
    /\ call.op = "delete_old_articles"
    /\ call.arg = 1
    /\ call.ret = 1
    /\ \E a \in call.pre : now - a.created_at = Day + 1 /\ a.status = "published"
    /\ \E a \in news_articles : now - a.created_at = Day

\* C19: start_scheduler on a running scheduler registers no job and starts no
\* thread; stop_scheduler on a stopped scheduler changes neither is_running
\* nor the registered jobs nor the threads.
C19_StartStopIdempotent ==
    [][/\ (call'.op = "start_scheduler" /\ call' # call /\ is_running) =>
              UNCHANGED <<is_running, jobs, loops, thread>>
       /\ (call'.op = "stop_scheduler" /\ call' # call /\ ~is_running) =>
              UNCHANGED <<is_running, jobs, loops, thread>>]_vars

C19_Witness ==
    /\ call.op = "start_scheduler"
    /\ call.pre.is_running
    /\ is_running
    /\ jobs = ScheduledJobs
    /\ loops = {thread}

\* a call of stop_scheduler on a running scheduler returns
StopReturns ==
    /\ call'.op = "stop_scheduler"
    /\ call'.pc = "done"
    /\ call' # call
    /\ call'.pre.is_running

\* a sweep of the timer leaves flight only through its return statement
SweepNeverCut ==
    [][(InFlight("timer") /\ ~InFlight("timer")') => sw["timer"].pc = "return"]_vars

\* C20: stop_scheduler never cuts a sweep of the timer, and it returns only
\* when no sweep of the timer is in flight any more.
C20_StopWaitsForSweep ==
    /\ SweepNeverCut
    /\ [][StopReturns => ~InFlight("timer")']_vars

\* C20 (amended): stop_scheduler never cuts a sweep of the timer; it waits for
\* the thread started last for at most the join timeout: it returns while
\* that thread is in a sweep only when the timeout has expired.
C20_StopJoinsBounded ==
    /\ SweepNeverCut
    /\ [][StopReturns =>
             \/ call'.timed_out
             \/ ~(InFlight("timer")' /\ sw'["timer"].owner = thread)]_vars

\* stop_scheduler has returned on the timeout while the sweep is between an
\* insert and the last_check update of its source
C20_Witness ==
    /\ call.op = "stop_scheduler"
    /\ call.pc = "done"
    /\ call.timed_out
    /\ InFlight("timer")
    /\ sw["timer"].added # <<>>
    /\ sw["timer"].checked = {}

\* C22: check_sources_for_news never raises: the sweep ends at its return
\* statement with a total and a by_source map whatever failed, and when the
\* listing of the sources failed the total is 0 and the map is empty.
C22_SweepNeverRaises ==
    \A t \in Threads :
        /\ sw[t].pc # "raised"
        /\ sw[t].pc = "return" =>
              /\ sw[t].total \in Nat
              /\ DOMAIN sw[t].by_source =
                     {sw[t].listed[i].name : i \in 1..Len(sw[t].listed)}
              /\ \A n \in DOMAIN sw[t].by_source : sw[t].by_source[n] \in Nat
        /\ sw[t].failed =>
              /\ sw[t].pc = "return"
              /\ sw[t].total = 0
              /\ sw[t].by_source = <<>>

\* the listing failed although sources are registered
C22_Witness ==
    /\ sw["manual"].pc = "return"
    /\ sw["manual"].failed
    /\ news_sources # {}

RECURSIVE SumValues(_)
\* the sum of the values of the dict f
SumValues(f) ==
    IF DOMAIN f = {} THEN 0
    ELSE LET k == CHOOSE k \in DOMAIN f : TRUE
         IN  f[k] + SumValues([j \in DOMAIN f \ {k} |-> f[j]])

\* the thread t takes a step at the head of the candidate loop
CandidateStep(t) ==
    /\ sw[t].pc = "article"
    /\ sw[t].articles # <<>>
    /\ sw'[t] # sw[t]
    /\ sw'[t].raised = sw[t].raised

\* C25: in a sweep a candidate whose canonical URL is empty or already stored
\* is skipped and any other candidate goes to the insert; the sweep counts
\* exactly the inserts that returned an id, so total is the sum of by_source
\* and the number of rows the sweep has added.
C25_CountsMatchInserts ==
    /\ [](\A t \in Threads :
             /\ SumValues(sw[t].by_source) = sw[t].total
             /\ Len(sw[t].added) =
                    sw[t].total + (IF sw[t].pc = "count" /\ sw[t].article_id # None
                                   THEN 1 ELSE 0))
    /\ [][\A t \in Threads :
             /\ CandidateStep(t) =>
                   LET n == normalize_url(Head(sw[t].articles))
                   IN  /\ news_articles' = news_articles
                       /\ (n = <<>> \/ article_exists(n)) =>
                              /\ sw'[t].pc = "article"
                              /\ sw'[t].articles = Tail(sw[t].articles)
                       /\ ~(n = <<>> \/ article_exists(n)) => sw'[t].pc = "insert"
             /\ Len(sw'[t].added) > Len(sw[t].added) =>
                   /\ Len(sw'[t].added) = Len(sw[t].added) + 1
                   /\ Cardinality(news_articles' \ news_articles) = 1
                   /\ sw'[t].article_id # None]_vars

\* an insert of the sweep was rejected by the UNIQUE index: the other sweep
\* had inserted the URL after the pre-check
C25_Witness ==
    \E t \in Threads :
        /\ sw[t].pc = "count"
        /\ sw[t].article_id = None
        /\ sw[Rival(t)].added # <<>>

\* C26: the by_source count reported for a listed source is the number of
\* articles the sweep inserted with that source as source_id, also when two
\* sources have the same name.
C26_AttributedPerSource ==
    \A t \in Threads :
        (sw[t].pc = "return" /\ ~sw[t].failed) =>
            \A i \in 1..Len(sw[t].listed) :
                sw[t].by_source[sw[t].listed[i].name] =
                    Cardinality({k \in 1..Len(sw[t].added) :
                                    sw[t].added[k] = sw[t].listed[i].id})

\* C27: after a sweep every listed source whose processing went through has
\* had its last_check written by the sweep, whether or not the sweep added
\* an article for it.
C27_LastCheckAlways ==
    /\ [](\A t \in Threads :
             sw[t].pc = "return" =>
                 \A i \in 1..Len(sw[t].listed) :
                     sw[t].listed[i].id \notin sw[t].raised =>
                         sw[t].listed[i].id \in sw[t].checked)
    /\ [][\A t \in Threads :
             \A id \in sw'[t].checked \ sw[t].checked :
                 \A s \in news_sources' : s.id = id => s.last_check = now]_vars

\* a sweep over a source that brought nothing new has written its last_check
C27_Witness ==
    /\ sw["manual"].pc = "return"
    /\ Len(sw["manual"].listed) = 1
    /\ sw["manual"].added = <<>>
    /\ sw["manual"].raised = {}
    /\ \A s \in news_sources : s.last_check = now
    /\ news_sources # {}

\* the moderation actions of the control path: a listing, a status change, a
\* deletion
ControlPath ==
    \/ \E page \in Pages, page_size \in PageSizes : show_pending_news(page, page_size)
    \/ \E id \in ArticleIds : reject_article(id)
    \/ \E id \in ArticleIds : delete_article_callback(id)

\* C24: the control path does not block on a sweep: while the sweep that
\* check_sources started is in flight on its worker, a moderation action
\* can start.
C24_ControlNotBlocked ==
    InFlight("manual") => ENABLED ControlPath

\* the ids of the sources the sweep of frame f listed
ListedIds(f) == {f.listed[i].id : i \in 1..Len(f.listed)}

InactiveNotSwept ==
    \A t \in Threads :
        \A s \in news_sources :
            s.is_active = 0 =>
                /\ s.id \notin ListedIds(sw[t])
                /\ s.id \notin sw[t].checked
                /\ \A k \in 1..Len(sw[t].added) : sw[t].added[k] # s.id
                /\ s.last_check = NULL

\* C29: an update of a source's URL to the URL of another source raises and
\* leaves the table as it was, and no step changes the type of a source
\* that stays in the table.
C29_UpdateKeepsUniqueAndType ==
    /\ [][(/\ call'.op = "update_source_details"
           /\ call' # call
           /\ call'.arg.url # <<>>
           /\ \E s \in news_sources : s.id = call'.arg.source_id
           /\ \E s \in news_sources :
                 s.id # call'.arg.source_id /\ s.url = call'.arg.url)
              => (call'.raised /\ news_sources' = news_sources)]_vars
    /\ [][\A s \in news_sources : \A s2 \in news_sources' :
             s.id = s2.id => s.source_type = s2.source_type]_vars

\* an update to the URL of the other source has been refused
C29_Witness ==
    /\ call.op = "update_source_details"
    /\ call.raised
    /\ Cardinality(news_sources) = 2
    /\ \E s \in news_sources : s.id # call.arg.source_id /\ s.url = call.arg.url
    /\ \E s1, s2 \in news_sources : s1.source_type # s2.source_type

---------------------------------------------------------------------------
\* C21: scrape_source never raises, whatever the source type and whatever
\* the collaborators do; when the collaborator of the strategy fails (the
\* feed parser, the HTTP request of the direct parse, the headless browser
\* or the walk over the page analysis, the channel client), when the channel
\* client is not configured and when the type is unknown, the candidate list
\* is empty.
StrategyFailed(c) ==
    \/ c.arg.source_type \notin SourceTypes
    \/ c.arg.source_type = "rss" /\ ~c.env.result.ok
    \/ c.arg.source_type = "telegram" /\ (~c.env.telegram_client \/ ~c.env.result.ok)
    \/ /\ c.arg.source_type = "website"
       /\ \/ HostnameFails(c.arg.url)
          \/ Hostname(c.arg.url) = SHOPPERS_MEDIA /\ ~c.env.result.ok
          \/ Hostname(c.arg.url) # SHOPPERS_MEDIA /\ (~c.env.html \/ ~c.env.result.ok)

C21_ScrapeNeverRaises ==
    call.op = "scrape_source" =>
        /\ ~call.raised
        /\ StrategyFailed(call) => call.ret = <<>>

\* the channel client is configured and raises; the list is empty
C21_Witness ==
    /\ call.op = "scrape_source"
    /\ call.arg.source_type = "telegram"
    /\ call.env.telegram_client
    /\ ~call.env.result.ok
    /\ ~call.raised
    /\ call.ret = <<>>

---------------------------------------------------------------------------
\* the call went to the page-analysis strategy
PageAnalysis(c) ==
    /\ c.op = "scrape_source"
    /\ c.arg.source_type = "website"
    /\ ~HostnameFails(c.arg.url)
    /\ Hostname(c.arg.url) # SHOPPERS_MEDIA

\* the candidate the sweep of thread t is at
CurrentItem(t) == call.ret[Len(call.ret) - Len(sw[t].articles) + 1]

\* scrape_website_with_mistral hands back what the page analysis found,
\* relevant or not
PageAnalysisUnfiltered ==
    (PageAnalysis(call) /\ call.env.html /\ call.env.result.ok)
        => call.ret = call.env.result.items

\* C30: the page-analysis strategy hands back its candidates unfiltered, and
\* while the keyword table is not empty the sweep persists no page-analysis
\* candidate whose text holds no keyword.
C30_RelevanceDownstream ==
    /\ []PageAnalysisUnfiltered
    /\ [][(/\ sw["manual"].pc = "insert"
           /\ news_articles' # news_articles
           /\ PageAnalysis(call)
           /\ keywords # {})
              => is_marketplace_related(CurrentItem("manual").text)]_vars

---------------------------------------------------------------------------
\* the article the handler of the step was called for, before the step
CalledArticle == CHOOSE a \in news_articles : a.id = ParseArticleId(call'.data).value

\* the same article after the step
CalledArticleAfter == CHOOSE a \in news_articles' : a.id = ParseArticleId(call'.data).value

\* a press of one of the buttons of the review message
ReviewStep(op) == call'.op = op /\ call' # call

\* C23: when the content-transformation collaborator fails in every call of
\* a rewrite, the handler is not aborted and update_article_rewrite stores
\* the original title, the original content and an empty hashtag list; when
\* every image generation of a handler fails, no article gets a new image;
\* the handlers change no status and no publication time.
C23_TransformFailureFallsBack ==
    /\ [][(/\ ReviewStep("rewrite_article")
           /\ ArticleExistsById(ParseArticleId(call'.data).value)
           /\ ~call'.env.rewrite.ok
           /\ ~call'.env.rewrite2.ok)
              => /\ ~call'.raised
                 /\ CalledArticleAfter.rewritten_title = CalledArticle.original_title
                 /\ CalledArticleAfter.rewritten_content = CalledArticle.original_content
                 /\ CalledArticleAfter.hashtags = json_dumps(<<>>)]_vars
    /\ [][(/\ \/ ReviewStep("rewrite_article")
              \/ ReviewStep("show_article_details")
              \/ ReviewStep("generate_new_image")
           /\ ~call'.env.image.ok
           /\ ~call'.env.image2.ok)
              => \A a \in news_articles : \E b \in news_articles' :
                    /\ b.id = a.id
                    /\ b.image_path = a.image_path
                    /\ b.image_url = a.image_url]_vars
    /\ [][{<<a.id, a.status, a.published_at>> : a \in news_articles'}
             = {<<a.id, a.status, a.published_at>> : a \in news_articles}]_vars

\* the rewrite of a pending article whose title is not empty has failed and
\* the image generation of the review has failed: the fallback is stored
\* and the article has the image it had
C23_Witness ==
    /\ call.op = "rewrite_article"
    /\ ~call.raised
    /\ ~call.env.rewrite.ok
    /\ ~call.env.image2.ok
    /\ \E a \in news_articles :
          /\ a.id = ParseArticleId(call.data).value
          /\ a.status = "pending"
          /\ a.rewritten_title = a.original_title
          /\ a.original_title # <<>>
          /\ a.hashtags = json_dumps(<<>>)
          /\ a.image_path = NULLTEXT

---------------------------------------------------------------------------
\* the call went to the direct parser of the known layout
DirectParse(c) ==
    /\ c.op = "scrape_source"
    /\ c.arg.source_type = "website"
    /\ ~HostnameFails(c.arg.url)
    /\ Hostname(c.arg.url) = SHOPPERS_MEDIA

\* C31: the sweep hands a registered webpage source of host shoppers.media
\* (the host of the stored address) to the direct parser, and every other
\* webpage source to the page-analysis strategy.
C31_KnownLayoutDirect ==
    (call.op = "scrape_source" /\ call.arg.source_type = "website") =>
        IF Netloc(call.arg.url) = SHOPPERS_MEDIA
        THEN DirectParse(call)
        ELSE PageAnalysis(call)

\* the part that holds: no registered webpage source reaches the direct
\* parser
SweepNeverParsesDirectly == ~DirectParse(call)

---------------------------------------------------------------------------
\* C32: an article that a sweep has just inserted is pending, has no
\* publication time and no rewritten title or content, and the pending
\* listing returns it.
C32_CreatedPending ==
    [][\A a \in news_articles' :
          (\A b \in news_articles : b.id # a.id)
              => /\ a.status = "pending"
                 /\ a.published_at = NULL
                 /\ a.rewritten_title = NULLTEXT
                 /\ a.rewritten_content = NULLTEXT
                 /\ a \in PendingJoined']_vars

\* the part that holds: the columns of a new row
CreatedWithDefaults ==
    [][\A a \in news_articles' :
          (\A b \in news_articles : b.id # a.id)
              => /\ a.status = "pending"
                 /\ a.published_at = NULL
                 /\ a.rewritten_title = NULLTEXT
                 /\ a.rewritten_content = NULLTEXT]_vars

---------------------------------------------------------------------------
\* C33: at most one thread runs _run_scheduler_loop at any time, whatever
\* the sequence of start_scheduler and stop_scheduler calls.
C33_OneLoopThread == Cardinality(loops) <= 1

---------------------------------------------------------------------------
\* a job of the timer begins: the sweep, or the daily cleanup
JobBegins ==
    \/ ~InFlight("timer") /\ InFlight("timer")'
    \/ sw["timer"].pc # "cleanup" /\ sw'["timer"].pc = "cleanup"

\* C34: from the return of stop_scheduler to the next call of
\* start_scheduler no job of the timer begins, also when the join of
\* stop_scheduler timed out while a job was running.
C34_NoJobAfterStop ==
    [][(call.op = "stop_scheduler" /\ call.pc = "done" /\ call' = call)
          => ~JobBegins]_vars

\* the part that holds: after the return of stop_scheduler no round of the
\* loop starts a job
NoRoundAfterStop ==
    [][(call.op = "stop_scheduler" /\ call.pc = "done" /\ call' = call)
          => ~(~InFlight("timer") /\ InFlight("timer")')]_vars

\* C35: no article is posted to the target channel more than once, whatever
\* sequence of publish_article actions is taken for it
C35_PostedAtMostOnce == \A i \in ArticleIds : Posted[i] <= 1

\* what holds instead: the history of posts to the channel grows by one with
\* every publish of an existing article whose post succeeds, whatever the
\* status of the article was
EveryPublishPosts ==
    [][call' # call =>
          Posted'[call'.article_id] = Posted[call'.article_id] +
              (IF call'.env.configured /\ call'.env.sent
                  /\ ArticleExistsById(call'.article_id) THEN 1 ELSE 0)]_vars

\* the status and the published timestamp of every article, by id
StatusOf(rows) == {<<a.id, a.status, a.published_at>> : a \in rows}

\* C36: a publish_article whose post to the channel fails, or that finds no
\* channel configured, or no article with the id, leaves the status and the
\* published timestamp of every article as they were; a status only becomes
\* published in a step whose post succeeded
C36_PublishedOnlyAfterPost ==
    [][call' # call =>
          /\ (~call'.posts => StatusOf(news_articles') = StatusOf(news_articles))
          /\ \A a \in news_articles' :
                 (a.status = "published" /\ <<a.id, "published", a.published_at>>
                        \notin StatusOf(news_articles))
                    => call'.posts /\ call'.env.sent /\ call'.env.configured
                          /\ call'.article_id = a.id]_vars

\* a publish of a pending article whose post raised: the article is still
\* pending and unpublished
C36_Witness ==
    /\ call.op = "publish_article"
    /\ call.env.configured /\ ~call.env.sent
    /\ Posted[call.article_id] = 0
    /\ \E a \in news_articles :
           a.id = call.article_id /\ a.status = "pending" /\ a.published_at = NULL

\* C37: the second of two sweeps in a row, every source returning at the
\* second what it returned at the first, inserts no article and counts none:
\* its total and every per-source count stay 0
C37_SecondSweepAddsNothing ==
    (call.op = "sweeps" /\ call.sweeps = 2)
       => /\ sw["manual"].added = <<>>
          /\ sw["manual"].total = 0
          /\ \A n \in DOMAIN sw["manual"].by_source : sw["manual"].by_source[n] = 0

\* the second sweep is about to return, after a first sweep that inserted
\* an article, and it did go through the candidates of both sources
C37_Witness ==
    /\ call.op = "sweeps" /\ call.sweeps = 2
    /\ sw["manual"].pc = "return"
    /\ Len(sw["manual"].listed) = 2
    /\ sw["manual"].checked # {}
    /\ news_articles # {}

\* a step of init_database in SpecRestart: the only operation there that
\* leaves the frame of the sweep and the sources alone
InitDatabaseStep ==
    /\ call'.op = "init_database"
    /\ sw' = sw /\ news_sources' = news_sources
    /\ ControlFree

\* C38: init_database on a store that sweeps have filled does not raise,
\* changes the original_url of no article and deletes no article
C38_InitKeepsArticles ==
    [][InitDatabaseStep =>
          /\ ~MigrateRows(news_articles, {a.id : a \in news_articles}).raised
          /\ news_articles' = news_articles]_vars

\* what holds instead: no article is lost, and an article whose stored URL
\* normalize_url maps to itself keeps it
InitKeepsFixedPoints ==
    [][InitDatabaseStep =>
          /\ {a.id : a \in news_articles'} = {a.id : a \in news_articles}
          /\ \A a \in news_articles :
                 normalize_url(a.original_url) = a.original_url => a \in news_articles']_vars

\* C39: every article references an existing source, also when a sweep and
\* delete_news_source interleave: no step leaves an article behind, old or
\* newly inserted, whose source_id is the id of no source
C39_ArticlesHaveSource ==
    [][\A a \in news_articles' : \E s \in news_sources' : s.id = a.source_id]_vars

\* what holds instead: every article carries the id of a source that was
\* registered at some time
SourceWasRegistered ==
    \A a \in news_articles : a.source_id \in 1..(next_source_id - 1)

\* C40: the total that get_pending_articles_paginated returns is the number
\* of articles of all its pages together, and the last page that
\* show_pending_news computes from the total holds an article whenever the
\* total is positive
C40_TotalMatchesPages ==
    \A page_size \in PageSizes :
        \A ord \in Orderings(PageRows) :
            LET total == get_pending_articles_paginated(1, page_size, ord).total
                total_pages == (total + page_size - 1) \div page_size
            IN  /\ Len(ConcatPages(MaxArticleId + 1, page_size, [k \in Pages |-> ord]))
                      = total
                /\ total > 0 =>
                      get_pending_articles_paginated(total_pages, page_size, ord).items
                          # <<>>

\* what holds instead: the pages together hold the pending articles whose
\* source exists, and the total is at least their number
TotalBoundsPages ==
    \A page_size \in PageSizes :
        \A ord \in Orderings(PageRows) :
            LET n == Len(ConcatPages(MaxArticleId + 1, page_size, [k \in Pages |-> ord]))
            IN  /\ n = Cardinality(PendingJoined)
                /\ n <= get_pending_articles_paginated(1, page_size, ord).total

====
